---- MODULE Spec2Model ----
(***************************************************************************)
(* Model of the flash/update utilities of sparkle-duck-shared              *)
(* (scripts/lib/*.mjs): the cleanup manager ("Guard"), flashImage,         *)
(* waitForReboot, verifyRemoteChecksum, remoteFlash and the scoped-mount   *)
(* partition operations.                                                   *)
(*                                                                         *)
(* One Node.js process, one control flow.  A library call runs             *)
(* synchronously until it awaits; a synchronous stretch of code is one     *)
(* action.  The SIGINT handler runs only when the event loop turns, that   *)
(* is between calls and at the awaits.                                     *)
(*                                                                         *)
(* Paths and typed strings are sequences of one-character strings.         *)
(* An external command is recorded in cmds when the code executes it; its  *)
(* outcome is chosen nondeterministically.  A shell line that ends in      *)
(* "|| true" always exits 0, so execSync does not throw for it.            *)
(***************************************************************************)
EXTENDS Integers, Sequences, FiniteSets, TLC

VARIABLES
    resources,          \* cleanup manager: tracked loop / mount / tempdir
    inCriticalSection,  \* cleanup manager: the critical-section flag
    sigintHandler,      \* cleanup manager: TRUE when its handler is installed
    listeners,          \* process: SIGINT listeners registered by the manager
    handled,            \* what the latest SIGINT delivery did
    exited,             \* TRUE once process.exit ran
    exitCode,           \* the exit status (meaningful when exited)
    op,                 \* the library function called last
    pc,                 \* where that call stands
    args,               \* its arguments and locals
    cmds,               \* external commands executed since the call began
    msgs,               \* messages printed since the call began
    result              \* what the call returned

vars == <<resources, inCriticalSection, sigintHandler, listeners, handled, exited,
          exitCode, op, pc, args, cmds, msgs, result>>

guardVars == <<resources, inCriticalSection, sigintHandler, listeners>>

----------------------------------------------------------------------------
(* Bounds of the model. *)

\* Longest string the operator types at a prompt.
MaxTyped == 3

----------------------------------------------------------------------------
(* Strings. *)

Letters == {"b", "y", "o", "l"}
Uppers == {"B", "Y", "O", "L"}
Digits == {"0", "1", "2", "3", "4", "5", "6", "7", "8", "9"}
Space == " "

\* String.prototype.toLowerCase, one character.
LowerChar(c) ==
    CASE c = "B" -> "b"
      [] c = "Y" -> "y"
      [] c = "O" -> "o"
      [] c = "L" -> "l"
      [] OTHER -> c

toLowerCase(s) == [i \in 1..Len(s) |-> LowerChar(s[i])]

RECURSIVE TrimStart(_)
TrimStart(s) ==
    IF s # <<>> /\ Head(s) = Space THEN TrimStart(Tail(s)) ELSE s

RECURSIVE TrimEnd(_)
TrimEnd(s) ==
    IF s # <<>> /\ s[Len(s)] = Space
    THEN TrimEnd(SubSeq(s, 1, Len(s) - 1))
    ELSE s

\* String.prototype.trim.
trim(s) == TrimEnd(TrimStart(s))

\* All strings of at most n characters over alphabet A.
RECURSIVE StringsUpTo(_, _)
StringsUpTo(A, n) ==
    IF n = 0 THEN {<<>>}
    ELSE LET shorter == StringsUpTo(A, n - 1)
         IN shorter \cup {Append(s, c) : s \in shorter, c \in A}

\* Target disks: a name ending in a letter and a name ending in a digit.
Devices == {<<"b">>, <<"b", "0">>}

\* What the operator may type at the flashImage prompt.
TypedInputs == StringsUpTo({"b", "B", "0", Space}, MaxTyped)

\* An external command.  soft: the shell line ends in "|| true".
Cmd(tool, arg) == [tool |-> tool, arg |-> arg, soft |-> FALSE]

SoftCmd(tool, arg) == [tool |-> tool, arg |-> arg, soft |-> TRUE]

NoArg == <<>>

Range(f) == {f[i] : i \in DOMAIN f}

\* The tools of cmds, in order.
Tools(cs) == [i \in 1..Len(cs) |-> cs[i].tool]

Count(cs, tool) == Cardinality({i \in 1..Len(cs) : cs[i].tool = tool})

\* The positions of tool in cs.
Positions(cs, tool) == {i \in 1..Len(cs) : cs[i].tool = tool}

\* Mutant: the "|| true" is missing, every command can throw.
CanThrow_NoOrTrue(c) == TRUE

\* execSync throws when the shell line exits non-zero; a line ending in
\* "|| true" never does.
CanThrow(c) == ~c.soft

\* A try block that executes steps in order: either all of them run, or one
\* that can throw does and the rest is skipped.
RunTry(steps) ==
    {[ran |-> steps, threw |-> FALSE]} \cup
    {[ran |-> SubSeq(steps, 1, k), threw |-> TRUE] :
        k \in {i \in 1..Len(steps) : CanThrow(steps[i])}}

----------------------------------------------------------------------------
(* The cleanup manager (createCleanupManager). *)

\* null, and every other falsy value of a resource slot.
null == <<>>

ResourceTypes == {"loop", "mount", "tempdir"}

ResourceValues(type) ==
    CASE type = "loop" -> {<<"l", "0">>, <<"l", "1">>}
      [] type = "mount" -> {<<"m">>}
      [] type = "tempdir" -> {<<"t">>}
      [] OTHER -> {<<"x">>}

\* The release commands of emergencyCleanup and cleanup, in program order.
ReleaseSteps(res) ==
    (IF res.mount # null THEN <<SoftCmd("umount", res.mount)>> ELSE <<>>)
    \o (IF res.loop # null THEN <<SoftCmd("losetup_d", res.loop)>> ELSE <<>>)
    \o (IF res.tempdir # null THEN <<Cmd("rm_rf", res.tempdir)>> ELSE <<>>)

Running == ~exited

\* Caller code runs between library calls.
AtCaller == Running /\ pc = "idle"

\* A call that returns at once.
Returns(name, a, cs, ms, r) ==
    /\ op' = name
    /\ pc' = "done"
    /\ args' = a
    /\ cmds' = cs
    /\ msgs' = ms
    /\ result' = r
    /\ handled' = "none"

\* A call that suspends at an await.
Awaits(name, at, a, cs, ms) ==
    /\ op' = name
    /\ pc' = at
    /\ args' = a
    /\ cmds' = cs
    /\ msgs' = ms
    /\ result' = "pending"
    /\ handled' = "none"

\* process.exit(code).
Exits(code, ms) ==
    /\ exited' = TRUE
    /\ exitCode' = code
    /\ msgs' = ms

\* The caller has looked at the outcome of a call and goes on.
callerContinues ==
    /\ Running
    /\ pc = "done"
    /\ op' = "none"
    /\ pc' = "idle"
    /\ args' = <<>>
    /\ cmds' = <<>>
    /\ msgs' = {}
    /\ result' = "none"
    /\ handled' = "none"
    /\ UNCHANGED <<guardVars, exited, exitCode>>

trackResource ==
    /\ AtCaller
    /\ \E type \in ResourceTypes \cup {"bogus"} :
        \E value \in ResourceValues(type) :
            IF type \notin ResourceTypes
            THEN /\ Returns("trackResource", [type |-> type], <<>>, {}, "throws")
                 /\ UNCHANGED resources
            ELSE /\ Returns("trackResource", [type |-> type], <<>>, {}, "undefined")
                 /\ resources' = [resources EXCEPT ![type] = value]
    /\ UNCHANGED <<inCriticalSection, sigintHandler, listeners, exited, exitCode>>

untrackResource ==
    /\ AtCaller
    /\ \E type \in ResourceTypes \cup {"bogus"} :
            IF type \notin ResourceTypes
            THEN /\ Returns("untrackResource", [type |-> type], <<>>, {}, "throws")
                 /\ UNCHANGED resources
            ELSE /\ Returns("untrackResource", [type |-> type], <<>>, {}, "undefined")
                 /\ resources' = [resources EXCEPT ![type] = null]
    /\ UNCHANGED <<inCriticalSection, sigintHandler, listeners, exited, exitCode>>

\* Mutant: entries are counted modulo two, a second entry ends the section.
enterCriticalSection_Toggles ==
    /\ AtCaller
    /\ inCriticalSection' = ~inCriticalSection
    /\ Returns("enterCriticalSection", [was |-> inCriticalSection], <<>>, {}, "undefined")
    /\ UNCHANGED <<resources, sigintHandler, listeners, exited, exitCode>>

\* was: the flag before the call.
enterCriticalSection ==
    /\ AtCaller
    /\ inCriticalSection' = TRUE
    /\ Returns("enterCriticalSection", [was |-> inCriticalSection], <<>>, {}, "undefined")
    /\ UNCHANGED <<resources, sigintHandler, listeners, exited, exitCode>>

exitCriticalSection ==
    /\ AtCaller
    /\ inCriticalSection' = FALSE
    /\ Returns("exitCriticalSection", <<>>, <<>>, {}, "undefined")
    /\ UNCHANGED <<resources, sigintHandler, listeners, exited, exitCode>>

\* Mutant: what was released is no longer tracked.
cleanup_Forgets ==
    /\ AtCaller
    /\ IF inCriticalSection
       THEN /\ Returns("cleanup", <<>>, <<>>, {"cannot_cleanup"}, "undefined")
            /\ UNCHANGED resources
       ELSE \E run \in RunTry(ReleaseSteps(resources)) :
                /\ Returns("cleanup", <<>>, run.ran,
                           IF run.threw THEN {"cleanup_error"} ELSE {},
                           "undefined")
                /\ resources' = [type \in ResourceTypes |-> null]
    /\ UNCHANGED <<inCriticalSection, sigintHandler, listeners, exited, exitCode>>

\* cleanup(exitCode): the manual cleanup; it does not exit.
cleanup ==
    /\ AtCaller
    /\ IF inCriticalSection
       THEN Returns("cleanup", <<>>, <<>>, {"cannot_cleanup"}, "undefined")
       ELSE \E run \in RunTry(ReleaseSteps(resources)) :
                Returns("cleanup", <<>>, run.ran,
                        IF run.threw THEN {"cleanup_error"} ELSE {},
                        "undefined")
    /\ UNCHANGED <<resources, inCriticalSection, sigintHandler, listeners, exited, exitCode>>

\* Mutant: a second install is not refused.
installSignalHandlers_NoCheck ==
    /\ AtCaller
    /\ listeners < 2
    /\ Returns("installSignalHandlers", <<>>, <<>>, {}, "undefined")
    /\ sigintHandler' = TRUE
    /\ listeners' = listeners + 1
    /\ UNCHANGED <<resources, inCriticalSection, exited, exitCode>>

\* process.on('SIGINT', sigintHandler) adds a listener, one more for every call.
installSignalHandlers ==
    /\ AtCaller
    /\ IF sigintHandler
       THEN /\ Returns("installSignalHandlers", <<>>, <<>>, {}, "throws")
            /\ UNCHANGED <<sigintHandler, listeners>>
       ELSE /\ Returns("installSignalHandlers", <<>>, <<>>, {}, "undefined")
            /\ sigintHandler' = TRUE
            /\ listeners' = listeners + 1
    /\ UNCHANGED <<resources, inCriticalSection, exited, exitCode>>

\* process.off('SIGINT', sigintHandler) removes one listener.
uninstallSignalHandlers ==
    /\ AtCaller
    /\ IF sigintHandler
       THEN /\ sigintHandler' = FALSE
            /\ listeners' = IF listeners > 0 THEN listeners - 1 ELSE 0
       ELSE UNCHANGED <<sigintHandler, listeners>>
    /\ Returns("uninstallSignalHandlers", <<>>, <<>>, {}, "undefined")
    /\ UNCHANGED <<resources, inCriticalSection, exited, exitCode>>

\* isInCriticalSection(): reports the flag.
isInCriticalSection ==
    /\ AtCaller
    /\ Returns("isInCriticalSection", <<>>, <<>>, {},
               IF inCriticalSection THEN "true" ELSE "false")
    /\ UNCHANGED <<guardVars, exited, exitCode>>

\* Positions inside a stretch of synchronous code (prepareRootfs): the event
\* loop does not turn there, so no signal handler is called.
SyncPositions == {"prep_attached", "prep_rootfs_loop", "prep_mounted"}

\* The handler is installed and the event loop can call it.
Listening == listeners > 0 /\ pc \notin SyncPositions

\* Mutant: the handler does not look at the critical-section flag.
emergencyCleanup_IgnoresFlag ==
    /\ Running
    /\ Listening
    /\ \E run \in RunTry(ReleaseSteps(resources)) :
            /\ handled' = "cleaned"
            /\ cmds' = cmds \o run.ran
            /\ Exits(130, msgs \cup {"ctrl_c_cleaning",
                       IF run.threw THEN "cleanup_failed" ELSE "cleanup_complete"})
    /\ UNCHANGED <<resources, inCriticalSection, sigintHandler, listeners, op, pc, args,
                   result>>

\* The SIGINT handler.  It is delivered when the event loop turns: every pc of
\* this model is such a point.
emergencyCleanup ==
    /\ Running
    /\ Listening
    /\ IF inCriticalSection
       THEN /\ handled' = "refused"
            /\ msgs' = msgs \cup {"cannot_interrupt"}
            /\ UNCHANGED <<cmds, exited, exitCode>>
       ELSE \E run \in RunTry(ReleaseSteps(resources)) :
            /\ handled' = "cleaned"
            /\ cmds' = cmds \o run.ran
            /\ Exits(130, msgs \cup {"ctrl_c_cleaning",
                       IF run.threw THEN "cleanup_failed" ELSE "cleanup_complete"})
    /\ UNCHANGED <<resources, inCriticalSection, sigintHandler, listeners, op, pc, args,
                   result>>

----------------------------------------------------------------------------
(* cli-utils: prompt. *)

\* Mutant: the answer is lower-cased as well.
prompt_Lowercased(typed) == toLowerCase(trim(typed))

\* prompt(question) resolves to the typed line, trimmed.
prompt(typed) == trim(typed)

----------------------------------------------------------------------------
(* flash-utils: flashImage. *)

\* The tool of the destructive write.
Writer(useBmap) == IF useBmap THEN "bmaptool" ELSE "dd"

WriteTools == {"bmaptool", "dd"}

\* From the unmount to the spawn of the write subprocess; the function then
\* awaits the subprocess's close event.
StartWrite(a, cs, ms) ==
    /\ op' = "flashImage"
    /\ pc' = "flash_write"
    /\ args' = a
    /\ cmds' = cs \o <<SoftCmd("umount_all", a.device), Cmd(Writer(a.useBmap), a.device)>>
    /\ msgs' = ms \cup {"unmounting", "running"}
    /\ result' = "pending"
    /\ handled' = "none"

\* Mutant: the dry run always describes the dd path.
Plan_AlwaysDd(useBmap) == <<"umount_all", "dd", "sync">>

\* The commands a dry run prints under "Would execute:".
Plan(useBmap) ==
    IF useBmap
    THEN <<"umount_all", "bmaptool", "sync">>
    ELSE <<"umount_all", "dd", "sync">>

\* The call, up to its first await (or its return, in a dry run).
flashImage ==
    /\ AtCaller
    /\ \E device \in Devices, dryRun \in BOOLEAN, skipConfirm \in BOOLEAN,
          bmaptool \in BOOLEAN, bmapFile \in BOOLEAN :
        LET useBmap == bmaptool /\ bmapFile
            a == [device |-> device, dryRun |-> dryRun, skipConfirm |-> skipConfirm,
                  useBmap |-> useBmap, prompted |-> FALSE, typed |-> <<>>,
                  code |-> 0, bmaptool |-> bmaptool, bmapFile |-> bmapFile,
                  plan |-> IF dryRun THEN Plan(useBmap) ELSE <<>>]
            cs == <<Cmd("which_bmaptool", NoArg)>>
            ms == {IF dryRun THEN "dry_run_banner" ELSE "erase_warning",
                   IF useBmap THEN "method_bmaptool" ELSE "method_dd"}
        IN  IF dryRun
            THEN Returns("flashImage", a, cs,
                         ms \cup {IF useBmap THEN "plan_bmaptool" ELSE "plan_dd"},
                         "undefined")
            ELSE IF ~skipConfirm
            THEN Awaits("flashImage", "flash_prompt", a, cs, ms)
            ELSE StartWrite(a, cs, ms)
    /\ UNCHANGED <<guardVars, exited, exitCode>>

\* Mutant: the mismatch is reported and the flash goes on.
ConfirmMismatch_NoExit(a) ==
    /\ StartWrite(a, cmds, msgs \cup {"confirmation_failed"})
    /\ UNCHANGED <<exited, exitCode>>

\* confirm !== device: report and process.exit(1).
ConfirmMismatch(a) ==
    /\ Exits(1, msgs \cup {"confirmation_failed"})
    /\ args' = a
    /\ handled' = "none"
    /\ UNCHANGED <<op, pc, cmds, result>>

\* The operator answers the confirmation prompt.
flashConfirm ==
    /\ Running
    /\ op = "flashImage" /\ pc = "flash_prompt"
    /\ \E typed \in TypedInputs :
        LET confirm == prompt(typed)
            a == [args EXCEPT !.prompted = TRUE, !.typed = typed]
        IN  IF confirm # args.device
            THEN ConfirmMismatch(a)
            ELSE /\ StartWrite(a, cmds, msgs)
                 /\ UNCHANGED <<exited, exitCode>>
    /\ UNCHANGED guardVars

\* Mutant: the function returns when the subprocess has closed, without sync.
AfterWrite_NoSync(syncOk) ==
    /\ result' = "undefined"
    /\ UNCHANGED <<cmds, msgs>>

\* Lines 197-199: execSync('sync') after the awaited promise resolved.
AfterWrite(syncOk) ==
    /\ cmds' = Append(cmds, Cmd("sync", NoArg))
    /\ msgs' = msgs \cup {"syncing"}
    /\ result' = IF syncOk THEN "undefined" ELSE "throws"

\* The write subprocess closes: with status 0, with another status, or killed
\* by a signal (code null, here -1).
flashClose ==
    /\ Running
    /\ op = "flashImage" /\ pc = "flash_write"
    /\ \E code \in {-1, 0, 1} :
        /\ args' = [args EXCEPT !.code = code]
        /\ IF code = 0
           THEN \E syncOk \in BOOLEAN : AfterWrite(syncOk)
           ELSE /\ result' = "throws"
                /\ UNCHANGED <<cmds, msgs>>
    /\ pc' = "done"
    /\ handled' = "none"
    /\ UNCHANGED <<guardVars, exited, exitCode, op>>

\* errno of a spawn that found no executable (ENOENT).
ENOENT == 0 - 2

\* The write subprocess cannot be started: the child emits 'error', on which
\* flashImage has no listener, so the event is thrown as an uncaught exception
\* and the process ends with status 1; the awaited promise stays pending.
flashSpawnError ==
    /\ Running
    /\ op = "flashImage" /\ pc = "flash_write"
    /\ args' = [args EXCEPT !.code = ENOENT]
    /\ Exits(1, msgs \cup {"uncaught_exception"})
    /\ handled' = "none"
    /\ UNCHANGED <<guardVars, op, pc, cmds, result>>

----------------------------------------------------------------------------
(* remote-utils: waitForReboot. *)

\* Largest timeoutSec of a waitForReboot call, in seconds.
MaxTimeout == 4

\* Longest time one poll's SSH round trips take, in seconds.
MaxSshDelay == 1

MAX_FRESH_UPTIME == 120

\* The delay between two polls, in seconds.
PollDelay == 2

\* Uptimes of the remote, in seconds.
Uptimes == {5, 119, 120, 3600}

\* The uptime of a remote that has just booted.
FreshBoot == CHOOSE u \in Uptimes : \A v \in Uptimes : u <= v

\* ssh(remoteTarget, 'echo ok'): 'ok' when the remote answers, null otherwise.
ssh_echo(online) == IF online THEN "ok" ELSE "null"

\* getRemoteUptime: the uptime read over SSH, -1 when the read fails.
getRemoteUptime(online, readOk, uptime) ==
    IF online /\ readOk THEN uptime ELSE -1

\* Mutant: any uptime below the threshold counts, a failed read (-1) included.
IsFresh_NoLowerBound(uptime) == uptime < MAX_FRESH_UPTIME

\* uptime >= 0 && uptime < MAX_FRESH_UPTIME.
IsFresh(uptime) == uptime >= 0 /\ uptime < MAX_FRESH_UPTIME

\* Mutant: a high uptime after the remote came back is not a verdict; polling
\* goes on.
wfrBackOnline_KeepsPolling(uptime) ==
    IF IsFresh(uptime)
    THEN [ret |-> "true", ms |-> {"back_online", "freshly_rebooted"}]
    ELSE [ret |-> "none", ms |-> {}]

\* The remote answers again after it was seen offline: the uptime decides.
wfrBackOnline(uptime) ==
    IF IsFresh(uptime)
    THEN [ret |-> "true", ms |-> {"back_online", "freshly_rebooted"}]
    ELSE [ret |-> "false", ms |-> {"reboot_may_have_failed"}]

\* Mutant: after the deadline the function gives up without a last read.
wfrFinal_NoLastCheck(uptime) ==
    [ret |-> "false", ms |-> {"timeout"}]

\* After the deadline: the final check.
wfrFinal(uptime) ==
    IF IsFresh(uptime)
    THEN [ret |-> "true", ms |-> {"back_online", "freshly_rebooted"}]
    ELSE [ret |-> "false",
          ms |-> {"timeout"} \cup
                 (IF uptime >= 0 THEN {"reboot_did_not_happen"} ELSE {})]

\* One turn of the loop from its condition on, up to the sleep or the return.
\* readOk: whether an uptime read, if one is made, gets an answer.
wfrTurn(a, cs, ms, readOk) ==
    IF a.elapsed < a.timeoutSec
    THEN \* one poll
        LET sshResult == ssh_echo(a.online)
            cs1 == Append(cs, Cmd("ssh_echo", NoArg))
        IN  IF sshResult # "ok"
            THEN /\ args' = [a EXCEPT !.sawOffline = TRUE, !.lastSsh = sshResult]
                 /\ cmds' = cs1
                 /\ msgs' = ms \cup (IF a.sawOffline THEN {} ELSE {"went_offline"})
                 /\ pc' = "wfr_sleep"
                 /\ result' = "pending"
            ELSE IF a.sawOffline
            THEN LET uptime == getRemoteUptime(a.online, readOk, a.uptime)
                     v == wfrBackOnline(uptime)
                 IN  /\ args' = [a EXCEPT !.lastSsh = sshResult, !.read = uptime,
                                           !.reads = @ + 1]
                     /\ cmds' = Append(cs1, Cmd("ssh_uptime", NoArg))
                     /\ msgs' = ms \cup v.ms
                     /\ pc' = IF v.ret = "none" THEN "wfr_sleep" ELSE "done"
                     /\ result' = IF v.ret = "none" THEN "pending" ELSE v.ret
            ELSE /\ args' = [a EXCEPT !.lastSsh = sshResult]
                 /\ cmds' = cs1
                 /\ msgs' = ms
                 /\ pc' = "wfr_sleep"
                 /\ result' = "pending"
    ELSE \* the deadline has passed
        LET uptime == getRemoteUptime(a.online, readOk, a.uptime)
            v == wfrFinal(uptime)
        IN  /\ args' = [a EXCEPT !.phase = "final", !.read = uptime,
                                  !.reads = @ + 1]
            /\ cmds' = Append(cs, Cmd("ssh_uptime", NoArg))
            /\ msgs' = ms \cup v.ms
            /\ pc' = "done"
            /\ result' = v.ret

\* The call, up to the first sleep or the return.
waitForReboot ==
    /\ AtCaller
    /\ \E timeoutSec \in 0..MaxTimeout, online \in BOOLEAN, uptime \in Uptimes,
          readOk \in BOOLEAN :
        wfrTurn([timeoutSec |-> timeoutSec, elapsed |-> 0, sawOffline |-> FALSE,
                 lastSsh |-> "none", phase |-> "loop", read |-> -1, reads |-> 0,
                 online |-> online, uptime |-> uptime, rebooted |-> FALSE],
                <<>>, {"waiting_for_shutdown"}, readOk)
    /\ op' = "waitForReboot"
    /\ handled' = "none"
    /\ UNCHANGED <<guardVars, exited, exitCode>>

\* Mutant: the wall clock stands still.
Elapsed_Frozen(elapsed, d, timeoutSec) == elapsed

\* Date.now() - startTime at the loop condition, one poll delay and the SSH
\* round trips of the last poll later; times past the deadline are all alike.
Elapsed(elapsed, d, timeoutSec) ==
    LET t == elapsed + PollDelay + d
    IN  IF t > timeoutSec THEN timeoutSec ELSE t

\* The poll delay ends; the loop condition is evaluated on the wall clock,
\* which the SSH round trips have advanced too.
wfrWake ==
    /\ Running
    /\ op = "waitForReboot" /\ pc = "wfr_sleep"
    /\ \E d \in 0..MaxSshDelay, readOk \in BOOLEAN :
        wfrTurn([args EXCEPT !.elapsed = Elapsed(args.elapsed, d, args.timeoutSec)],
                cmds, msgs, readOk)
    /\ handled' = "none"
    /\ UNCHANGED <<guardVars, exited, exitCode, op>>

\* The remote, while the caller sleeps between polls.
remoteGoesOffline ==
    /\ Running
    /\ op = "waitForReboot" /\ pc = "wfr_sleep"
    /\ args.online
    /\ args' = [args EXCEPT !.online = FALSE]
    /\ handled' = "none"
    /\ UNCHANGED <<guardVars, exited, exitCode, op, pc, cmds, msgs, result>>

\* The remote boots and answers again.
remoteBoots ==
    /\ Running
    /\ op = "waitForReboot" /\ pc = "wfr_sleep"
    /\ ~args.online
    /\ args' = [args EXCEPT !.online = TRUE, !.uptime = FreshBoot, !.rebooted = TRUE]
    /\ handled' = "none"
    /\ UNCHANGED <<guardVars, exited, exitCode, op, pc, cmds, msgs, result>>

\* The remote answers again without having rebooted (the SSH failure was
\* transient).
remoteReconnects ==
    /\ Running
    /\ op = "waitForReboot" /\ pc = "wfr_sleep"
    /\ ~args.online
    /\ args' = [args EXCEPT !.online = TRUE]
    /\ handled' = "none"
    /\ UNCHANGED <<guardVars, exited, exitCode, op, pc, cmds, msgs, result>>

----------------------------------------------------------------------------
(* command-utils: run and runCapture. *)

\* Mutant: the captured output is returned whatever the exit status.
runCapture_IgnoresStatus(exit, stdout) == [isNull |-> FALSE, text |-> stdout]

\* runCapture(cmd): the trimmed stdout, or null when execSync throws (a
\* non-zero exit status).  text is the set of words the output contains.
runCapture(exit, stdout) ==
    IF exit = 0
    THEN [isNull |-> FALSE, text |-> stdout]
    ELSE [isNull |-> TRUE, text |-> {}]

\* run(cmd, args): resolves when the subprocess closes with status 0, rejects
\* on any other close (a signal gives null, here -1) and on a spawn error
\* (here -2).
run(code) == IF code = 0 THEN "resolved" ELSE "rejected"

----------------------------------------------------------------------------
(* remote-utils: verifyRemoteChecksum. *)

Digests == {"d1", "d2"}

\* "cd <dir> && sha256sum -c <sidecar>" on the remote: the digest of the
\* artifact is recomputed and compared with the one the sidecar holds.  The
\* line printed for the artifact starts with its name.
sha256sum_c(image, sidecar, nameHasOK) ==
    LET name == IF nameHasOK THEN {"OK"} ELSE {}
    IN  IF sidecar = "absent" THEN [exit |-> 1, stdout |-> {}]
        ELSE IF image = "absent" THEN [exit |-> 1, stdout |-> name \cup {"FAILED"}]
        ELSE IF image = sidecar THEN [exit |-> 0, stdout |-> name \cup {"OK"}]
        ELSE [exit |-> 1, stdout |-> name \cup {"FAILED"}]

\* ssh(remoteTarget, command): runCapture of the ssh command line; ssh exits
\* 255 when it cannot connect, otherwise with the remote command's status.
ssh(connects, remote) ==
    IF connects THEN runCapture(remote.exit, remote.stdout) ELSE runCapture(255, {})

\* result && result.includes('OK')
ChecksumOk(sshResult) ==
    ~sshResult.isNull /\ sshResult.text # {} /\ "OK" \in sshResult.text

verifyRemoteChecksum ==
    /\ AtCaller
    /\ \E image \in Digests \cup {"absent"}, sidecar \in Digests \cup {"absent"},
          nameHasOK \in BOOLEAN, connects \in BOOLEAN :
        LET sshResult == ssh(connects, sha256sum_c(image, sidecar, nameHasOK))
            a == [image |-> image, sidecar |-> sidecar, nameHasOK |-> nameHasOK,
                  connects |-> connects]
            cs == <<Cmd("ssh_sha256sum_c", NoArg)>>
        IN  IF ChecksumOk(sshResult)
            THEN Returns("verifyRemoteChecksum", a, cs,
                         {"verifying", "checksum_verified"}, "true")
            ELSE Returns("verifyRemoteChecksum", a, cs,
                         {"verifying", "checksum_failed"}, "false")
    /\ UNCHANGED <<guardVars, exited, exitCode>>

----------------------------------------------------------------------------
(* rootfs-utils: remoteFlash. *)

Yolo == <<"y", "o", "l", "o">>

\* What the operator may type at the remoteFlash prompt.
YoloTyped ==
    {Yolo, <<"Y", "O", "L", "O">>, <<"Y", "o", "l", "o">>,
     <<" ", "y", "o", "l", "o", " ">>, <<"y", "o", "l">>, <<"o", "l", "o", "y">>,
     <<>>}

RemoteImagePath == <<"i">>

\* sshRun(remoteTarget, `ab-update ${remoteImagePath}`) is started; the
\* function awaits it.
StartUpdate(a, ms) ==
    /\ op' = "remoteFlash"
    /\ pc' = "rf_update"
    /\ args' = a
    /\ cmds' = <<Cmd("ssh_ab_update", a.remoteImagePath)>>
    /\ msgs' = ms \cup {"running_update"}
    /\ result' = "pending"
    /\ handled' = "none"

remoteFlash ==
    /\ AtCaller
    /\ \E dryRun \in BOOLEAN, skipConfirm \in BOOLEAN :
        LET a == [remoteImagePath |-> RemoteImagePath, dryRun |-> dryRun,
                  skipConfirm |-> skipConfirm, prompted |-> FALSE, typed |-> <<>>,
                  closed |-> FALSE, code |-> 0]
        IN  IF dryRun
            THEN Returns("remoteFlash", a, <<>>, {"yolo_banner", "dry_run_plan"},
                         "undefined")
            ELSE IF ~skipConfirm
            THEN Awaits("remoteFlash", "rf_prompt", a, <<>>,
                        {"yolo_banner", "overwrite_warning"})
            ELSE StartUpdate(a, {"yolo_banner", "overwrite_warning", "hold_my_mead"})
    /\ UNCHANGED <<guardVars, exited, exitCode>>

\* The operator answers the "yolo" prompt.
rfConfirm ==
    /\ Running
    /\ op = "remoteFlash" /\ pc = "rf_prompt"
    /\ \E typed \in YoloTyped :
        LET confirm == prompt(typed)
            a == [args EXCEPT !.prompted = TRUE, !.typed = typed]
        IN  IF toLowerCase(confirm) # Yolo
            THEN /\ Exits(1, msgs \cup {"aborted"})
                 /\ args' = a
                 /\ handled' = "none"
                 /\ UNCHANGED <<op, pc, cmds, result>>
            ELSE /\ StartUpdate(a, msgs)
                 /\ UNCHANGED <<exited, exitCode>>
    /\ UNCHANGED guardVars

\* Mutant: a failed update is logged and the reboot is issued all the same.
rfAfterUpdate_RebootsAnyway(settled) ==
    [cs |-> <<Cmd("ssh_reboot", NoArg)>>,
     ms |-> IF settled = "resolved" THEN {"update_complete", "rebooting"}
            ELSE {"update_failed", "rebooting"},
     to |-> "rf_settle"]

\* The try block around the update: on success the reboot is sent with
\* runCapture, which never throws; on failure the error is logged and thrown
\* again.
rfAfterUpdate(settled) ==
    IF settled = "resolved"
    THEN [cs |-> <<Cmd("ssh_reboot", NoArg)>>,
          ms |-> {"update_complete", "rebooting"},
          to |-> "rf_settle"]
    ELSE [cs |-> <<>>, ms |-> {"update_failed"}, to |-> "done"]

\* The ab-update subprocess closes (or could not be spawned).
rfUpdateCloses ==
    /\ Running
    /\ op = "remoteFlash" /\ pc = "rf_update"
    /\ \E code \in {-2, -1, 0, 1} :
        LET then == rfAfterUpdate(run(code))
        IN  /\ args' = [args EXCEPT !.closed = TRUE, !.code = code]
            /\ cmds' = cmds \o then.cs
            /\ msgs' = msgs \cup then.ms
            /\ pc' = then.to
            /\ result' = IF then.to = "done" THEN "throws" ELSE "pending"
    /\ handled' = "none"
    /\ UNCHANGED <<guardVars, exited, exitCode, op>>

\* The two-second pause after the reboot command ends; the function returns.
rfSettled ==
    /\ Running
    /\ op = "remoteFlash" /\ pc = "rf_settle"
    /\ pc' = "done"
    /\ result' = "undefined"
    /\ handled' = "none"
    /\ UNCHANGED <<guardVars, exited, exitCode, op, args, cmds, msgs>>

----------------------------------------------------------------------------
(* partition-utils, ssh-utils, wifi-utils: the scoped-mount operations. *)

DigitChar(d) ==
    CASE d = 0 -> "0" [] d = 1 -> "1" [] d = 2 -> "2" [] d = 3 -> "3"
      [] d = 4 -> "4" [] d = 5 -> "5" [] d = 6 -> "6" [] d = 7 -> "7"
      [] d = 8 -> "8" [] OTHER -> "9"

\* `${part}`: the decimal digits of a non-negative integer.
RECURSIVE Decimal(_)
Decimal(n) ==
    IF n < 10 THEN <<DigitChar(n)>>
    ELSE Append(Decimal(n \div 10), DigitChar(n % 10))

\* getPartitionDevice(device, partitionNumber), for a non-empty device and a
\* positive integer: /\d$/.test(device) decides on the "p".
getPartitionDevice(device, partitionNumber) ==
    LET needsP == device[Len(device)] \in Digits
    IN  IF needsP
        THEN device \o <<"p">> \o Decimal(partitionNumber)
        ELSE device \o Decimal(partitionNumber)

\* partition-utils exists in two copies: the first builds a partition path as
\* `${device}4`, the second calls getPartitionDevice.
Copies == {"first", "second"}

PartitionOf(copy, device, partitionNumber) ==
    IF copy = "first"
    THEN device \o Decimal(partitionNumber)
    ELSE getPartitionDevice(device, partitionNumber)

\* sudo mount <partition> <mountPoint>
MountCmd(partition, mountPoint) ==
    [tool |-> "mount", arg |-> mountPoint, soft |-> FALSE, dev |-> partition]

\* Mutant: the unmount is the last statement of the try block, not a finally.
ScopedMount_NoFinally(pre, body, catch, fin) ==
    {[ran |-> p.ran, preThrew |-> TRUE, bodyThrew |-> FALSE, finThrew |-> FALSE] :
        p \in {q \in RunTry(pre) : q.threw}}
    \cup
    {[ran |-> pre \o b.ran \o (IF b.threw THEN catch ELSE f.ran),
      preThrew |-> FALSE, bodyThrew |-> b.threw,
      finThrew |-> ~b.threw /\ f.threw] :
        b \in RunTry(body), f \in RunTry(fin)}

\* The shape shared by the five operations:
\*     pre;  try { body } [catch { catch }] finally { try { fin } catch {} }
\* pre throws to the caller; a throw in body skips the rest of body; catch
\* holds steps that cannot throw; fin always runs and its throw is swallowed.
ScopedMount(pre, body, catch, fin) ==
    {[ran |-> p.ran, preThrew |-> TRUE, bodyThrew |-> FALSE, finThrew |-> FALSE] :
        p \in {q \in RunTry(pre) : q.threw}}
    \cup
    {[ran |-> pre \o b.ran \o (IF b.threw THEN catch ELSE <<>>) \o f.ran,
      preThrew |-> FALSE, bodyThrew |-> b.threw, finThrew |-> f.threw] :
        b \in RunTry(body), f \in RunTry(fin)}

BackupDir == <<"data-backup">>

\* What rsync finds on the data partition.
Contents == {"nothing", "lost+found", "files", "files+lost+found"}

\* readdirSync(backupDir).filter(f => f !== 'lost+found').length === 0
\* Mutant: lost+found counts as a backed-up entry.
NothingUseful_CountsLostFound(content) == content = "nothing"

NothingUseful(content) == content \in {"nothing", "lost+found"}

backupDataPartition ==
    /\ AtCaller
    /\ \E copy \in Copies, device \in Devices, content \in Contents :
        LET dataPartition == PartitionOf(copy, device, 4)
            mountPoint == <<"data-mount">>
            pre == <<Cmd("fs_mkdtemp", BackupDir), Cmd("fs_mkdtemp", mountPoint)>>
            copied == <<MountCmd(dataPartition, mountPoint),
                        Cmd("rsync", mountPoint), Cmd("chown", BackupDir),
                        Cmd("fs_readdir", BackupDir)>>
            body == copied \o (IF NothingUseful(content)
                               THEN <<Cmd("fs_rmdir", BackupDir)>> ELSE <<>>)
            catch == <<SoftCmd("fs_rmdir", BackupDir)>>
            fin == <<SoftCmd("umount", mountPoint), Cmd("fs_rmdir", mountPoint)>>
        IN  \E o \in ScopedMount(pre, body, catch, fin) :
            LET a == [copy |-> copy, device |-> device, content |-> content,
                      dryRun |-> FALSE, preThrew |-> o.preThrew,
                      bodyThrew |-> o.bodyThrew]
                \* info('Data partition is empty') precedes the rmdirSync.
                empty == IF Cmd("fs_rmdir", BackupDir) \in Range(o.ran)
                         THEN {"nothing_to_backup"} ELSE {}
            IN  IF o.preThrew
                THEN Returns("backupDataPartition", a, o.ran, {}, "throws")
                ELSE IF o.bodyThrew
                THEN Returns("backupDataPartition", a, o.ran,
                             {"backing_up", "backup_failed"} \cup empty, "null")
                ELSE IF NothingUseful(content)
                THEN Returns("backupDataPartition", a, o.ran,
                             {"backing_up"} \cup empty, "null")
                ELSE Returns("backupDataPartition", a, o.ran,
                             {"backing_up", "backed_up"}, "backupDir")
    /\ UNCHANGED <<guardVars, exited, exitCode>>

restoreDataPartition ==
    /\ AtCaller
    /\ \E copy \in Copies, device \in Devices, dryRun \in BOOLEAN :
        LET dataPartition == PartitionOf(copy, device, 4)
            mountPoint == <<"data-restore">>
            pre == <<Cmd("fs_mkdtemp", mountPoint)>>
            body == <<MountCmd(dataPartition, mountPoint), Cmd("rsync", mountPoint)>>
            fin == <<Cmd("umount", mountPoint), Cmd("fs_rmdir", mountPoint)>>
        IN  IF dryRun
            THEN Returns("restoreDataPartition",
                         [copy |-> copy, device |-> device, dryRun |-> dryRun,
                          preThrew |-> FALSE, bodyThrew |-> FALSE], <<>>,
                         {"restoring", "would_mount", "would_restore", "would_unmount"},
                         "true")
            ELSE \E o \in ScopedMount(pre, body, <<>>, fin) :
                LET a == [copy |-> copy, device |-> device, dryRun |-> dryRun,
                          preThrew |-> o.preThrew, bodyThrew |-> o.bodyThrew]
                    warned == IF o.finThrew THEN {"cleanup_warning"} ELSE {}
                IN  IF o.preThrew
                    THEN Returns("restoreDataPartition", a, o.ran, {"restoring"},
                                 "throws")
                    ELSE IF o.bodyThrew
                    THEN Returns("restoreDataPartition", a, o.ran,
                                 {"restoring", "restore_failed", "unmounting"}
                                     \cup warned, "false")
                    ELSE Returns("restoreDataPartition", a, o.ran,
                                 {"restoring", "data_restored", "unmounting"}
                                     \cup warned, "true")
    /\ UNCHANGED <<guardVars, exited, exitCode>>

\* The operations that have no catch of their own: a throw in the try block
\* reaches the caller after the finally.
MountAndWrite(name, a, mountPoint, body, remove, dry) ==
    IF a.dryRun
    THEN Returns(name, a, <<>>, dry, "undefined")
    ELSE \E o \in ScopedMount(<<Cmd("fs_mkdtemp", mountPoint)>>, body, <<>>,
                               <<Cmd("umount", mountPoint),
                                 Cmd(remove, mountPoint)>>) :
        LET warned == IF o.finThrew THEN {"cleanup_warning"} ELSE {}
        IN  IF o.preThrew
            THEN Returns(name, a, o.ran, {}, "throws")
            ELSE IF o.bodyThrew
            THEN Returns(name, a, o.ran, {"unmounting"} \cup warned, "throws")
            ELSE Returns(name, a, o.ran, {"done", "unmounting"} \cup warned,
                         "undefined")

setHostname ==
    /\ AtCaller
    /\ \E copy \in Copies, device \in Devices, dryRun \in BOOLEAN :
        LET bootPartition == PartitionOf(copy, device, 1)
            mountPoint == <<"boot">>
            hostnameFilePath == mountPoint \o <<"/hostname.txt">>
        IN  MountAndWrite("setHostname",
                          [copy |-> copy, device |-> device, dryRun |-> dryRun],
                          mountPoint,
                          <<MountCmd(bootPartition, mountPoint),
                            Cmd("tee", hostnameFilePath),
                            Cmd("chmod", hostnameFilePath)>>,
                          "fs_rmdir",
                          {"would_mount", "would_write", "would_unmount"})
    /\ UNCHANGED <<guardVars, exited, exitCode>>

injectSSHKey ==
    /\ AtCaller
    /\ \E device \in Devices, dryRun \in BOOLEAN, keyReadable \in BOOLEAN :
        LET rootfsPartition == getPartitionDevice(device, 2)
            mountPoint == <<"rootfs">>
            authorizedKeysPath == mountPoint \o <<"/authorized_keys">>
            a == [device |-> device, dryRun |-> dryRun, keyReadable |-> keyReadable]
        IN  IF ~keyReadable
            THEN Returns("injectSSHKey", a, <<>>, {"failed_to_read_key"}, "throws")
            ELSE MountAndWrite("injectSSHKey", a, mountPoint,
                               <<MountCmd(rootfsPartition, mountPoint),
                                 Cmd("tee", authorizedKeysPath),
                                 Cmd("chmod", authorizedKeysPath),
                                 Cmd("chown", authorizedKeysPath)>>,
                               "fs_rmdir",
                               {"would_mount", "would_write", "would_unmount"})
    /\ UNCHANGED <<guardVars, exited, exitCode>>

injectWifiCredentials ==
    /\ AtCaller
    /\ \E device \in Devices, dryRun \in BOOLEAN :
        LET dataPartition == getPartitionDevice(device, 4)
            mountPoint == <<"data-wifi">>
            nmDir == mountPoint \o <<"/NetworkManager/system-connections">>
            connPath == nmDir \o <<"/ssid.nmconnection">>
            tempFile == <<"nm-conn">>
        IN  MountAndWrite("injectWifiCredentials",
                          [device |-> device, dryRun |-> dryRun], mountPoint,
                          <<MountCmd(dataPartition, mountPoint),
                            Cmd("mkdir_p", nmDir),
                            Cmd("chmod", mountPoint \o <<"/NetworkManager">>),
                            Cmd("chmod", nmDir),
                            Cmd("fs_writeFile", tempFile),
                            Cmd("cp", connPath),
                            Cmd("chmod", connPath),
                            Cmd("fs_rm", tempFile)>>,
                          "fs_rm",
                          {"would_mount", "would_write", "would_unmount"})
    /\ UNCHANGED <<guardVars, exited, exitCode>>

MountOps ==
    {"backupDataPartition", "restoreDataPartition", "setHostname",
     "injectSSHKey", "injectWifiCredentials"}

----------------------------------------------------------------------------
(* partition-utils: getPartitionDevice called with arbitrary JavaScript
   values.  A value is a record: t is its typeof (with "null" and the
   non-integer numbers "fraction" and "NaN" set apart), n its number, s its
   characters. *)

JsNumber(n) == [t |-> "number", n |-> n, s |-> <<>>]
JsString(s) == [t |-> "string", n |-> 0, s |-> s]
JsOther(t) == [t |-> t, n |-> 0, s |-> <<>>]
JsNaN == JsOther("NaN")

\* Largest partition number passed to getPartitionDevice.
MaxPart == 5

\* The values a caller may pass as device.
DeviceValues ==
    {JsString(s) : s \in Devices \cup {<<>>, <<"0">>}}
        \cup {JsNumber(0), JsNumber(4), JsOther("null"), JsOther("undefined")}

\* The values a caller may pass as partitionNumber.
PartValues ==
    {JsNumber(n) : n \in (0 - 1)..MaxPart}
        \cup {JsString(s) : s \in {<<>>, <<"4">>, <<" ", "2">>, <<"0">>, <<"b">>, <<"1", "b">>}}
        \cup {JsOther(t) : t \in {"fraction", "NaN", "null", "undefined", "true", "false"}}

DigitValue(c) ==
    CASE c = "0" -> 0 [] c = "1" -> 1 [] c = "2" -> 2 [] c = "3" -> 3
      [] c = "4" -> 4 [] c = "5" -> 5 [] c = "6" -> 6 [] c = "7" -> 7
      [] c = "8" -> 8 [] OTHER -> 9

RECURSIVE ParseDecimal(_)
ParseDecimal(s) ==
    IF s = <<>> THEN 0
    ELSE 10 * ParseDecimal(SubSeq(s, 1, Len(s) - 1)) + DigitValue(s[Len(s)])

\* Number(value): numbers as they are, true 1, false and null 0, undefined
\* NaN; a string is trimmed, the empty string is 0, decimal digits are their
\* value and any other string is NaN.
Number(v) ==
    CASE v.t \in {"number", "fraction", "NaN"} -> v
      [] v.t = "true" -> JsNumber(1)
      [] v.t \in {"false", "null"} -> JsNumber(0)
      [] v.t = "string" ->
            IF \A i \in 1..Len(trim(v.s)) : trim(v.s)[i] \in Digits
            THEN JsNumber(ParseDecimal(trim(v.s)))
            ELSE JsNaN
      [] OTHER -> JsNaN

\* !device: the falsy values.
Falsy(v) ==
    \/ v.t \in {"null", "undefined", "false", "NaN"}
    \/ v.t = "number" /\ v.n = 0
    \/ v.t = "string" /\ v.s = <<>>

\* Mutant: the partition number is checked as given, without Number().
PartOf_Strict(partitionNumber) ==
    IF partitionNumber.t = "number" THEN partitionNumber ELSE JsNaN

\* const part = Number(partitionNumber)
PartOf(partitionNumber) == Number(partitionNumber)

\* Mutant: the separator is never inserted.
PathOf_NeverP(device, part) == device \o Decimal(part)

\* The return statement of getPartitionDevice.
PathOf(device, part) == getPartitionDevice(device, part)

\* A direct call of the exported function: the two guards, then the path.
callGetPartitionDevice ==
    /\ AtCaller
    /\ \E device \in DeviceValues, partitionNumber \in PartValues :
        LET part == PartOf(partitionNumber)
            a == [device |-> device, partitionNumber |-> partitionNumber,
                  path |-> <<>>]
        IN  IF Falsy(device) \/ device.t # "string"
            THEN Returns("getPartitionDevice", a, <<>>, {"device_is_required"},
                         "throws")
            ELSE IF ~(part.t = "number") \/ part.n <= 0
            THEN Returns("getPartitionDevice", a, <<>>,
                         {"invalid_partitionNumber"}, "throws")
            ELSE Returns("getPartitionDevice",
                         [a EXCEPT !.path = PathOf(device.s, part.n)],
                         <<>>, {}, "path")
    /\ UNCHANGED <<guardVars, exited, exitCode>>

----------------------------------------------------------------------------
(* partition-utils: hasDataPartition and growDataPartition. *)

\* What the path tested by `test -b` is.
NodeKinds == {"block", "regular", "absent"}

\* `test -b <path>` exits 0 exactly for a block special file.
test_b(node) == IF node = "block" THEN 0 ELSE 1

hasDataPartition ==
    /\ AtCaller
    /\ \E copy \in Copies, device \in Devices, node \in NodeKinds :
        LET dataPartition == PartitionOf(copy, device, 4)
        IN  Returns("hasDataPartition",
                    [copy |-> copy, device |-> device, node |-> node,
                     dryRun |-> FALSE],
                    <<Cmd("test_b", dataPartition)>>, {},
                    IF test_b(node) = 0 THEN "true" ELSE "false")
    /\ UNCHANGED <<guardVars, exited, exitCode>>

\* A command run inside a try block whose catch ignores the error.
Ignored(tool, arg) == SoftCmd(tool, arg)

\* hasCommand(cmd): `command -v`, true when it exits 0.
hasCommand(cmd) == Ignored("command_v", <<cmd>>)

\* refreshPartitionTable(device, partitionNumber): each helper that is
\* installed is run, and its failure ignored.
refreshPartitionTable(device, installed) ==
    <<hasCommand("partprobe")>>
        \o (IF "partprobe" \in installed
            THEN <<Ignored("partprobe", device)>> ELSE <<>>)
        \o <<hasCommand("partx")>>
        \o (IF "partx" \in installed THEN <<Ignored("partx", device)>> ELSE <<>>)
        \o <<hasCommand("udevadm")>>
        \o (IF "udevadm" \in installed
            THEN <<Ignored("udevadm_settle", NoArg)>> ELSE <<>>)

\* Exit statuses of growpart and e2fsck; -1 stands for a death by signal
\* (err.status is null).
ExitCodes == {-1, 0, 1, 2, 4}

\* Mutant: only exit status 0 is accepted.
runAllowExitCodes_OnlyZero(exit, allowedExitCodes) ==
    [threw |-> exit # 0, code |-> exit]

\* runAllowExitCodes(cmd, allowedExitCodes): the exit status when it is 0 or
\* allowed, an Error otherwise.
runAllowExitCodes(exit, allowedExitCodes) ==
    IF exit = 0 THEN [threw |-> FALSE, code |-> 0]
    ELSE IF exit # -1 /\ exit \in allowedExitCodes
    THEN [threw |-> FALSE, code |-> exit]
    ELSE [threw |-> TRUE, code |-> exit]

\* The commands growDataPartition requires, in the order it asks for them.
Required == <<"growpart", "e2fsck", "resize2fs">>

\* Sets of installed commands.
Installs ==
    {{"growpart", "e2fsck", "resize2fs"} \cup extra :
        extra \in {{}, {"partprobe", "partx", "udevadm"}, {"partx"}}}
    \cup {{"growpart", "e2fsck"}, {"growpart", "resize2fs", "partprobe"}, {"e2fsck"}}

\* Mutant: the filesystem is resized before it is checked.
GrowTail_ResizeFirst(dataPartition, fsck, resizeOk) ==
    IF ~resizeOk
    THEN [ran |-> <<Cmd("resize2fs", dataPartition)>>, threw |-> TRUE]
    ELSE [ran |-> <<Cmd("resize2fs", dataPartition),
                    Cmd("e2fsck_f_p", dataPartition)>>,
          threw |-> fsck.threw]

\* The forced check, then the resize.
GrowTail(dataPartition, fsck, resizeOk) ==
    IF fsck.threw
    THEN [ran |-> <<Cmd("e2fsck_f_p", dataPartition)>>, threw |-> TRUE]
    ELSE [ran |-> <<Cmd("e2fsck_f_p", dataPartition),
                    Cmd("resize2fs", dataPartition)>>,
          threw |-> ~resizeOk]

\* In args: the exit status of a command that was not run.
NotRun == 0 - 3

growDataPartition ==
    /\ AtCaller
    /\ \E device \in Devices, dryRun \in BOOLEAN, installed \in Installs,
          growpart \in ExitCodes, e2fsck \in ExitCodes, resizeOk \in BOOLEAN :
        LET partitionNumber == 4
            dataPartition == getPartitionDevice(device, partitionNumber)
            a == [device |-> device, dryRun |-> dryRun, installed |-> installed,
                  growExit |-> NotRun, fsckExit |-> NotRun, resizeOk |-> "not run"]
            missing == {i \in 1..Len(Required) : Required[i] \notin installed}
            firstMissing == CHOOSE i \in missing : \A j \in missing : i <= j
            asked == [i \in 1..(IF missing = {} THEN Len(Required) ELSE firstMissing)
                          |-> hasCommand(Required[i])]
            refresh == refreshPartitionTable(device, installed)
            upToGrow == asked \o <<Ignored("umount_all", device)>> \o refresh
                          \o <<Cmd("growpart", device \o <<Space>> \o Decimal(partitionNumber))>>
            grow == runAllowExitCodes(growpart, {0, 1})
            fsck == runAllowExitCodes(e2fsck, {0, 1, 2})
            tail == GrowTail(dataPartition, fsck, resizeOk)
            noChange == IF grow.code = 1 THEN {"already_at_maximum_size"} ELSE {}
        IN  IF dryRun
            THEN Returns("growDataPartition", a, <<>>,
                         {"growing", "would_growpart", "would_e2fsck",
                          "would_resize2fs"}, "undefined")
            ELSE IF missing # {}
            THEN Returns("growDataPartition", a, asked,
                         {"growing", "missing_required_command"}, "throws")
            ELSE IF grow.threw
            THEN Returns("growDataPartition",
                         [a EXCEPT !.growExit = growpart], upToGrow,
                         {"growing", "command_failed"}, "throws")
            ELSE Returns("growDataPartition",
                         [a EXCEPT !.growExit = growpart, !.fsckExit = e2fsck,
                                   !.resizeOk = IF fsck.threw THEN "not run"
                                                ELSE IF resizeOk THEN "yes" ELSE "no"],
                         upToGrow \o refresh \o tail.ran,
                         {"growing"} \cup noChange
                            \cup (IF tail.threw THEN {"command_failed"}
                                  ELSE {"resized"}),
                         IF tail.threw THEN "throws" ELSE "undefined")
    /\ UNCHANGED <<guardVars, exited, exitCode>>

----------------------------------------------------------------------------
(* Backup then restore, on the files.  A directory tree is a function from
   entry names to [owner, fake]: owner is the owner the filesystem records,
   fake the owner kept in the user.rsync.%stat attribute ("none" without the
   attribute). *)

\* Most entries on the data partition besides lost+found.
MaxFiles == 2

LostFound == <<"lost+found">>

EntryNames == {LostFound} \cup {<<"file", DigitChar(i)>> : i \in 1..MaxFiles}

Owners == {"root", "user"}

Entry(owner, fake) == [owner |-> owner, fake |-> fake]

\* Data partitions as the device wrote them: no rsync attribute, lost+found
\* (when present) owned by root.
Trees ==
    UNION {[names -> {Entry(o, "none") : o \in Owners}] :
              names \in SUBSET EntryNames}

DataPartitions ==
    {t \in Trees : LostFound \in DOMAIN t => t[LostFound].owner = "root"}

\* The data partition of a freshly flashed image.
FreshPartition == [n \in {LostFound} |-> Entry("root", "none")]

\* Mutant: the receiving side runs as a real super-user and sets the owner.
rsync_a_fake_super_ReceiverSuper(src, dst, runner) ==
    [n \in DOMAIN src \cup DOMAIN dst |->
        IF n \in DOMAIN src
        THEN Entry(IF src[n].fake # "none" THEN src[n].fake ELSE src[n].owner,
                   "none")
        ELSE dst[n]]

\* rsync -a --fake-super src/ dst/ run by runner.  In a local copy the option
\* applies to both sides: the sender takes the owner from the attribute when
\* there is one; the receiver does not chown, the entry it writes belongs to
\* runner, and the owner it received is kept in the attribute when it differs.
rsync_a_fake_super(src, dst, runner) ==
    [n \in DOMAIN src \cup DOMAIN dst |->
        IF n \in DOMAIN src
        THEN LET owner == IF src[n].fake # "none" THEN src[n].fake
                          ELSE src[n].owner
             IN  Entry(runner, IF owner = runner THEN "none" ELSE owner)
        ELSE dst[n]]

\* readdirSync(backupDir).filter(f => f !== 'lost+found').length === 0
OnlyLostFound(tree) == DOMAIN tree \subseteq {LostFound}

EmptyTree == [n \in {} |-> Entry("root", "none")]

\* The flash script: backupDataPartition, the flash, then
\* restoreDataPartition when there is a backup, every command succeeding.
backupThenRestore ==
    /\ AtCaller
    /\ \E device \in Devices, original \in DataPartitions :
        LET backup == rsync_a_fake_super(original, EmptyTree, "root")
            kept == ~OnlyLostFound(backup)
            restored == IF kept
                        THEN rsync_a_fake_super(backup, FreshPartition, "root")
                        ELSE FreshPartition
        IN  Returns("backupThenRestore",
                    [device |-> device, dryRun |-> FALSE, original |-> original,
                     backup |-> IF kept THEN backup ELSE EmptyTree,
                     restored |-> restored],
                    <<>>, {},
                    IF kept THEN "true" ELSE "undefined")
    /\ UNCHANGED <<guardVars, exited, exitCode>>

----------------------------------------------------------------------------
(* rootfs-utils: prepareRootfs.  The function has no await; its positions
   are the points at which it holds a loop device or a mount. *)

ImageLoop == <<"l", "0">>
RootfsLoop == <<"l", "1">>
WorkDir == <<"work">>
RootfsMount == <<"work", "/mnt">>

\* A step of a synchronous function that goes on at position at.
GoesOn(at, a, cs, ms) ==
    /\ pc' = at
    /\ args' = a
    /\ cmds' = cs
    /\ msgs' = ms
    /\ handled' = "none"
    /\ UNCHANGED <<op, result>>

\* The tool whose failure ended a try block.
Failing(r) == r.ran[Len(r.ran)].tool

\* Mutant: the unmount and the detach of the finally blocks cannot throw.
FinallyStep_Swallowed(tool, arg, err) ==
    {[ran |-> <<Cmd(tool, arg)>>, err |-> err]}

\* A cleanup command in a finally block without a try of its own: when it
\* throws, its error replaces the one on its way to the caller.
FinallyStep(tool, arg, err) ==
    {[ran |-> <<Cmd(tool, arg)>>, err |-> err],
     [ran |-> <<Cmd(tool, arg)>>, err |-> tool]}

\* The catch block of prepareRootfs: best-effort cleanup, then `throw err`.
prepFails(a, cs, first, err) ==
    \E tidy \in RunTry(<<SoftCmd("umount", RootfsMount),
                         SoftCmd("losetup_D", NoArg),
                         Cmd("fs_unlink", WorkDir \o <<"/image.wic">>),
                         Cmd("fs_unlink", WorkDir \o <<"/rootfs.ext4">>),
                         Cmd("fs_rm", RootfsMount),
                         Cmd("fs_rm", WorkDir)>>) :
        Returns("prepareRootfs",
                   [a EXCEPT !.firstErr = first, !.err = err,
                             !.held = {}, !.mounted = FALSE],
                   cs \o tidy.ran, msgs \cup {"failed"}, "throws")

\* The finally block that detaches the image loop device, on an error path.
prepDetachAndFail(a, cs, first, err) ==
    \E fin \in FinallyStep("losetup_d", ImageLoop, err) :
        prepFails(a, cs \o fin.ran, first, fin.err)

\* Lines 42-62: the work directory, gunzip, losetup -fP.
prepareRootfs ==
    /\ AtCaller
    /\ \E workingDirectory \in BOOLEAN, withKey \in BOOLEAN :
        LET a == [workingDirectory |-> workingDirectory, withKey |-> withKey,
                  dryRun |-> FALSE, attached |-> {}, held |-> {},
                  mounted |-> FALSE, everMounted |-> FALSE,
                  firstErr |-> "none", err |-> "none"]
            pre == IF workingDirectory THEN <<>>
                   ELSE <<Cmd("fs_mkdtemp", WorkDir)>>
        IN  \E p \in RunTry(pre) :
            IF p.threw
            THEN Returns("prepareRootfs",
                         [a EXCEPT !.firstErr = "fs_mkdtemp", !.err = "fs_mkdtemp"],
                         p.ran, {}, "throws")
            ELSE \E b \in RunTry(<<Cmd("gunzip", WorkDir),
                                   Cmd("losetup_fP", WorkDir)>>) :
                IF b.threw
                THEN prepFails(a, pre \o b.ran, Failing(b), Failing(b))
                ELSE /\ op' = "prepareRootfs"
                     /\ result' = "pending"
                     /\ pc' = "prep_attached"
                     /\ args' = [a EXCEPT !.attached = {ImageLoop},
                                          !.held = {ImageLoop}]
                     /\ cmds' = pre \o b.ran
                     /\ msgs' = {"decompressing", "loop_device"}
                     /\ handled' = "none"
    /\ UNCHANGED <<guardVars, exited, exitCode>>

\* Lines 64-76: dd of partition 2, losetup -f of the extracted rootfs.
prepExtract ==
    /\ Running /\ op = "prepareRootfs" /\ pc = "prep_attached"
    /\ \E b \in RunTry(<<Cmd("dd", ImageLoop \o <<"p", "2">>),
                         Cmd("losetup_f", WorkDir)>>) :
        IF b.threw
        THEN prepDetachAndFail(args, cmds \o b.ran, Failing(b), Failing(b))
        ELSE GoesOn("prep_rootfs_loop",
                    [args EXCEPT !.attached = @ \cup {RootfsLoop},
                                 !.held = @ \cup {RootfsLoop}],
                    cmds \o b.ran, msgs \cup {"extracting"})
    /\ UNCHANGED <<guardVars, exited, exitCode>>

\* Lines 78-82 and the catch of 108-112: mkdir, mount.
prepMount ==
    /\ Running /\ op = "prepareRootfs" /\ pc = "prep_rootfs_loop"
    /\ \E b \in RunTry(<<Cmd("mkdir_p", RootfsMount),
                         MountCmd(RootfsLoop, RootfsMount)>>) :
        IF b.threw
        THEN prepDetachAndFail(args,
                 cmds \o b.ran \o <<SoftCmd("losetup_d", RootfsLoop)>>,
                 Failing(b), Failing(b))
        ELSE GoesOn("prep_mounted",
                    [args EXCEPT !.mounted = TRUE, !.everMounted = TRUE],
                    cmds \o b.ran, msgs \cup {"mounting"})
    /\ UNCHANGED <<guardVars, exited, exitCode>>

\* Lines 84-131: the key, the unmount in the finally, sync and detach, the
\* detach of the image loop device, gzip and the removal of the work files.
prepInject ==
    /\ Running /\ op = "prepareRootfs" /\ pc = "prep_mounted"
    /\ \E key \in RunTry(IF args.withKey
                         THEN <<Cmd("fs_readFile", <<"key">>),
                                Cmd("tee", RootfsMount), Cmd("chmod", RootfsMount),
                                Cmd("chown", RootfsMount)>>
                         ELSE <<>>),
          um \in FinallyStep("umount", RootfsMount, "none") :
        LET first1 == IF key.threw THEN Failing(key) ELSE um.err
            err1 == IF um.err # "none" THEN um.err ELSE first1
            cs1 == cmds \o key.ran \o um.ran
        IN  IF err1 # "none"
            THEN prepDetachAndFail(args,
                     cs1 \o <<SoftCmd("losetup_d", RootfsLoop)>>, first1, err1)
            ELSE \E d \in RunTry(<<Cmd("sync", NoArg),
                                   Cmd("losetup_d", RootfsLoop)>>) :
                IF d.threw
                THEN prepDetachAndFail(args,
                         cs1 \o d.ran \o <<SoftCmd("losetup_d", RootfsLoop)>>,
                         Failing(d), Failing(d))
                ELSE \E fin \in FinallyStep("losetup_d", ImageLoop, "none") :
                    IF fin.err # "none"
                    THEN prepFails(args, cs1 \o d.ran \o fin.ran, fin.err, fin.err)
                    ELSE \E z \in RunTry(<<Cmd("gzip", WorkDir),
                                           Cmd("fs_unlink", WorkDir \o <<"/image.wic">>),
                                           Cmd("fs_unlink", WorkDir \o <<"/rootfs.ext4">>),
                                           Cmd("fs_rm", RootfsMount)>>) :
                        IF z.threw
                        THEN prepFails(args, cs1 \o d.ran \o fin.ran \o z.ran,
                                       Failing(z), Failing(z))
                        ELSE Returns("prepareRootfs",
                                     [args EXCEPT !.held = {}, !.mounted = FALSE],
                                     cs1 \o d.ran \o fin.ran \o z.ran,
                                     msgs \cup {"rootfs_prepared"}, "prepared")
    /\ UNCHANGED <<guardVars, exited, exitCode>>

----------------------------------------------------------------------------
(* flash-utils: getBlockDevices. *)

\* Most entries in the output of lsblk.
MaxListed == 1

\* String.prototype.startsWith.
startsWith(s, prefix) ==
    Len(s) >= Len(prefix) /\ SubSeq(s, 1, Len(prefix)) = prefix

DeviceNames ==
    {<<"s", "d", "b">>, <<"l", "o", "o", "p", "0">>, <<"n", "v", "m", "e", "0">>}

\* One entry of lsblk -J: rm is printed as a boolean by recent versions of
\* lsblk and as "1" / "0" by older ones; tran is null for many devices.
LsblkEntries ==
    [name : DeviceNames, type : {"disk", "part"}, rm : {"true", "'1'", "'0'"},
     tran : {"usb", "null"}]

Listings == UNION {[1..n -> LsblkEntries] : n \in 0..MaxListed}

\* Array.prototype.filter: the elements that pass, in their order.
RECURSIVE SelectSeqBy(_, _)
SelectSeqBy(s, keep) ==
    IF s = <<>> THEN <<>>
    ELSE (IF Head(s) \in keep THEN <<Head(s)>> ELSE <<>>)
            \o SelectSeqBy(Tail(s), keep)

\* Mutant: NVMe disks are not skipped.
Suitable_AllowsNvme(dev) ==
    /\ dev.type = "disk"
    /\ ~startsWith(dev.name, <<"l", "o", "o", "p">>)
    /\ dev.rm = "true" \/ dev.rm = "'1'" \/ dev.tran = "usb"

\* The filter callback of getBlockDevices.
Suitable(dev) ==
    IF dev.type # "disk" THEN FALSE
    ELSE IF startsWith(dev.name, <<"l", "o", "o", "p">>) THEN FALSE
    ELSE IF startsWith(dev.name, <<"n", "v", "m", "e">>) THEN FALSE
    ELSE dev.rm = "true" \/ dev.rm = "'1'" \/ dev.tran = "usb"

\* The map callback of getBlockDevices.
Described(dev) ==
    [device |-> <<"/dev/">> \o dev.name,
     transport |-> IF dev.tran = "null" THEN "unknown" ELSE dev.tran,
     removable |-> dev.rm = "true" \/ dev.rm = "'1'"]

getBlockDevices ==
    /\ AtCaller
    /\ \E listing \in Listings, lsblkOk \in BOOLEAN :
        \* When lsblk fails there is no output to parse.
        /\ ~lsblkOk => listing = <<>>
        /\ LET kept == SelectSeqBy(listing, {d \in Range(listing) : Suitable(d)})
               a == [listing |-> listing, lsblkOk |-> lsblkOk, dryRun |-> FALSE,
                     devices |-> IF lsblkOk
                                 THEN [i \in 1..Len(kept) |-> Described(kept[i])]
                                 ELSE <<>>]
           IN  Returns("getBlockDevices", a, <<Cmd("lsblk", NoArg)>>,
                       IF lsblkOk THEN {} ELSE {"failed_to_list_block_devices"},
                       "list")
    /\ UNCHANGED <<guardVars, exited, exitCode>>

----------------------------------------------------------------------------
(* flash-utils: findLatestImage.  A file name is a sequence of pieces, the
   last one its suffix. *)

\* Latest modification time of a directory entry.
MaxMtime == 2

ImageA == <<"a", ".wic.gz">>
ImageB == <<"b", ".wic.gz">>
Notes == <<"a", ".txt">>
Arrow == <<"a", "->", "b", ".wic.gz">>

\* String.prototype.endsWith, for a suffix that is one piece.
endsWith(f, suffix) == f # <<>> /\ f[Len(f)] = suffix

\* String.prototype.includes, for one piece.
includes(f, piece) == \E i \in 1..Len(f) : f[i] = piece

\* What readdirSync and statSync give for an entry: statSync follows a
\* symbolic link, so its mtime is that of the link's target.
Entries == [mtime : 1..MaxMtime, kind : {"file", "symlink"}]

\* Directories: the images are files or links of any age, the other two
\* entries regular files.
Directories ==
    {d \in UNION {[names -> Entries] : names \in SUBSET {ImageA, ImageB, Notes, Arrow}} :
        \A n \in DOMAIN d \cap {Notes, Arrow} :
            d[n] = [mtime |-> MaxMtime, kind |-> "file"]}

PreferredLists ==
    {<<>>, <<ImageA>>, <<ImageB>>, <<ImageB, ImageA>>, <<Notes>>, <<Arrow, ImageA>>}

\* Mutant: the oldest match is taken.
Newest_Oldest(dir, names) ==
    {n \in names : \A m \in names : dir[n].mtime <= dir[m].mtime}

\* files[0] after the sort by mtimeMs, descending: a match no other match is
\* newer than.
Newest(dir, names) ==
    {n \in names : \A m \in names : dir[n].mtime >= dir[m].mtime}

\* Mutant: symbolic links are left out.
Matches_NoSymlinks(dir, suffix) ==
    {f \in DOMAIN dir :
        endsWith(f, suffix) /\ ~includes(f, "->") /\ dir[f].kind = "file"}

\* The filter of line 60, on the names readdirSync returned.
Matches(dir, suffix) ==
    {f \in DOMAIN dir : endsWith(f, suffix) /\ ~includes(f, "->")}

\* The loop over preferredNames: the positions whose name is among the files.
PreferredFound(preferredNames, files) ==
    {i \in 1..Len(preferredNames) : preferredNames[i] \in files}

findLatestImage ==
    /\ AtCaller
    /\ \E exists \in BOOLEAN, dir \in Directories, preferredNames \in PreferredLists :
        LET suffix == ".wic.gz"
            files == Matches(dir, suffix)
            hits == PreferredFound(preferredNames, files)
            first == CHOOSE i \in hits : \A j \in hits : i <= j
            a == [exists |-> exists, dir |-> dir, preferredNames |-> preferredNames,
                  dryRun |-> FALSE, found |-> <<>>]
        IN  /\ ~exists => dir \in [{} -> Entries] /\ preferredNames = <<>>
            /\ IF ~exists \/ files = {}
               THEN Returns("findLatestImage", a, <<>>, {}, "null")
               ELSE IF hits # {}
               THEN Returns("findLatestImage",
                            [a EXCEPT !.found = preferredNames[first]],
                            <<>>, {}, "found")
               ELSE \E f \in Newest(dir, files) :
                    Returns("findLatestImage", [a EXCEPT !.found = f],
                            <<>>, {}, "found")
    /\ UNCHANGED <<guardVars, exited, exitCode>>

----------------------------------------------------------------------------
(* flash-utils: transferImage. *)

RemoteChecksumPath == RemoteImagePath \o <<".sha256">>

\* The call, up to the await of run('scp', ...) (or its return, in a dry run).
transferImage ==
    /\ AtCaller
    /\ \E dryRun \in BOOLEAN :
        LET a == [dryRun |-> dryRun, code |-> 0, artifact |-> FALSE,
                  sidecar |-> FALSE]
        IN  IF dryRun
            THEN Returns("transferImage", a, <<>>,
                         {"source", "target", "dry_run_plan"}, "paths")
            ELSE Awaits("transferImage", "ti_scp", a,
                        <<Cmd("scp", RemoteImagePath)>>, {"source", "target"})
    /\ UNCHANGED <<guardVars, exited, exitCode>>

\* scp closes (or could not be started).  After a successful copy the sidecar
\* is written with ssh(), whose result is not looked at.
tiScpCloses ==
    /\ Running
    /\ op = "transferImage" /\ pc = "ti_scp"
    /\ \E code \in {-2, -1, 0, 1} :
        IF run(code) = "rejected"
        THEN /\ args' = [args EXCEPT !.code = code]
             /\ result' = "throws"
             /\ UNCHANGED <<cmds, msgs>>
        ELSE \E connects \in BOOLEAN, echoExit \in {0, 1} :
             LET sshResult == ssh(connects, [exit |-> echoExit, stdout |-> {}])
             IN  /\ args' = [args EXCEPT !.code = code, !.artifact = TRUE,
                                         !.sidecar = ~sshResult.isNull]
                 /\ cmds' = Append(cmds, Cmd("ssh_echo_checksum", RemoteChecksumPath))
                 /\ msgs' = msgs \cup {"image_transferred", "writing_checksum"}
                 /\ result' = "paths"
    /\ pc' = "done"
    /\ handled' = "none"
    /\ UNCHANGED <<guardVars, exited, exitCode, op>>

----------------------------------------------------------------------------
Init ==
    /\ resources = [loop |-> null, mount |-> null, tempdir |-> null]
    /\ inCriticalSection = FALSE
    /\ sigintHandler = FALSE
    /\ listeners = 0
    /\ handled = "none"
    /\ exited = FALSE
    /\ exitCode = 0
    /\ op = "none"
    /\ pc = "idle"
    /\ args = <<>>
    /\ cmds = <<>>
    /\ msgs = {}
    /\ result = "none"

Next ==
    \/ callerContinues
    \/ trackResource
    \/ untrackResource
    \/ enterCriticalSection
    \/ exitCriticalSection
    \/ cleanup
    \/ installSignalHandlers
    \/ uninstallSignalHandlers
    \/ isInCriticalSection
    \/ emergencyCleanup
    \/ flashImage
    \/ flashConfirm
    \/ flashClose
    \/ flashSpawnError
    \/ waitForReboot
    \/ wfrWake
    \/ remoteGoesOffline
    \/ remoteBoots
    \/ remoteReconnects
    \/ verifyRemoteChecksum
    \/ remoteFlash
    \/ rfConfirm
    \/ rfUpdateCloses
    \/ rfSettled
    \/ backupDataPartition
    \/ restoreDataPartition
    \/ setHostname
    \/ injectSSHKey
    \/ injectWifiCredentials
    \/ callGetPartitionDevice
    \/ hasDataPartition
    \/ growDataPartition
    \/ backupThenRestore
    \/ prepareRootfs
    \/ prepExtract
    \/ prepMount
    \/ prepInject
    \/ getBlockDevices
    \/ findLatestImage
    \/ transferImage
    \/ tiScpCloses

Spec == Init /\ [][Next]_vars

\* The event loop runs a timer that has expired: the poll delay of
\* waitForReboot always ends.
LiveSpec == Init /\ [][Next]_vars /\ WF_vars(wfrWake)

----------------------------------------------------------------------------
(* Properties. *)

\* A step of the SIGINT handler: every other action resets handled.
HandlerStep == handled' # "none" /\ vars' # vars

\* The commands a step appended to cmds.
Appended == SubSeq(cmds', Len(cmds) + 1, Len(cmds'))

ReleaseTools == {"umount", "losetup_d", "rm_rf"}

\* C1: while the Guard is in its critical section, a SIGINT runs neither the
\* cleanup nor process.exit: the handler shows the cannot-interrupt notice and
\* returns, the tracked resources and the flag stay as they were, and no
\* handler run both refuses and cleans up.
C1_CriticalSectionRefusesInterrupt ==
    [][/\ (HandlerStep /\ inCriticalSection) =>
             /\ "cannot_interrupt" \in msgs'
             /\ msgs' \ msgs \subseteq {"cannot_interrupt"}
             /\ cmds' = cmds
             /\ ~exited'
             /\ resources' = resources
             /\ inCriticalSection'
             /\ UNCHANGED <<op, pc, result, sigintHandler>>
       /\ HandlerStep =>
             ~(/\ "cannot_interrupt" \in msgs' \ msgs
               /\ (cmds' # cmds \/ exited' \/ "ctrl_c_cleaning" \in msgs'))]_vars

\* An interrupt was refused during the destructive write, with resources tracked.
C1_Witness ==
    /\ handled = "refused"
    /\ op = "flashImage" /\ pc = "flash_write"
    /\ resources.mount # null /\ resources.loop # null /\ resources.tempdir # null
    /\ ~exited

\* C2: outside a critical section the handler attempts the release of every
\* tracked resource, the mount first, then the loop device, then the temp
\* directory, and then exits with status 130, also when a release step threw.
C2_InterruptCleansThenExits130 ==
    [][(HandlerStep /\ ~inCriticalSection) =>
          LET added == Appended
              at(tool) == {i \in 1..Len(added) : added[i].tool = tool}
          IN  /\ exited' /\ exitCode' = 130
              /\ SubSeq(cmds', 1, Len(cmds)) = cmds
              /\ \A i \in 1..Len(added) : added[i].tool \in ReleaseTools
              /\ (resources.mount # null) =>
                    \E i \in at("umount") : added[i].arg = resources.mount
              /\ (resources.loop # null) =>
                    \E i \in at("losetup_d") : added[i].arg = resources.loop
              /\ (resources.tempdir # null) =>
                    \E i \in at("rm_rf") : added[i].arg = resources.tempdir
              /\ \A i \in at("umount"), j \in at("losetup_d") \cup at("rm_rf") : i < j
              /\ \A i \in at("losetup_d"), j \in at("rm_rf") : i < j]_vars

\* The handler exited with 130 although a release step failed, all three
\* kinds of resource being tracked.
C2_Witness ==
    /\ handled = "cleaned"
    /\ exited /\ exitCode = 130
    /\ "cleanup_failed" \in msgs
    /\ resources.mount # null /\ resources.loop # null /\ resources.tempdir # null

\* C3 (as claimed): in flashImage the destructive write runs with the Guard
\* in its critical section.
C3_WriteRunsInCriticalSection ==
    (op = "flashImage" /\ pc = "flash_write") => inCriticalSection

\* typed is device with nothing but spaces before and after it.
SpacePadded(typed, device) ==
    \E i, j \in 0..Len(typed) :
        typed = [k \in 1..i |-> Space] \o device \o [k \in 1..j |-> Space]

WriteStarted == \E i \in 1..Len(cmds) : cmds[i].tool \in WriteTools

Prompted == op = "flashImage" /\ ~args.dryRun /\ ~args.skipConfirm /\ args.prompted

C5_MismatchAbortsBeforeAnyCommand ==
    ("confirmation_failed" \in msgs) =>
        /\ exited /\ exitCode = 1
        /\ \A i \in 1..Len(cmds) :
              cmds[i].tool \notin WriteTools \cup {"umount_all", "sync", "umount"}

\* A mismatch happened.
C5_Witness ==
    /\ op = "flashImage" /\ args.prompted /\ args.typed # args.device
    /\ "confirmation_failed" \in msgs
    /\ exited

\* C6: once the remote was seen unreachable and answers SSH again, the
\* uptime read decides at once: below the threshold the call returns true,
\* at or above it the call returns false with the reboot-failed report and
\* without the timeout report; the call never sleeps again after such a poll.
C6_UptimeDecidesAtOnce ==
    (op = "waitForReboot") =>
        /\ (pc = "wfr_sleep" /\ args.sawOffline) => args.lastSsh # "ok"
        /\ (pc = "done" /\ args.phase = "loop") =>
              /\ args.sawOffline /\ args.lastSsh = "ok" /\ args.reads = 1
              /\ (args.read >= 0 /\ args.read < MAX_FRESH_UPTIME) =>
                    (result = "true" /\ "timeout" \notin msgs)
              /\ (args.read >= MAX_FRESH_UPTIME) =>
                    /\ result = "false"
                    /\ "reboot_may_have_failed" \in msgs
                    /\ "timeout" \notin msgs

\* Offline, then online with an uptime of 3600 s before the deadline: the
\* reboot did not happen.
C6_Witness ==
    /\ op = "waitForReboot" /\ pc = "done" /\ args.phase = "loop"
    /\ args.sawOffline /\ args.read = 3600
    /\ args.elapsed < args.timeoutSec
    /\ result = "false" /\ "reboot_may_have_failed" \in msgs

\* C7: when the deadline passes without a verdict exactly one uptime read is
\* made, the last command of the call: a fresh uptime returns true, also when
\* the remote was never seen offline, anything else returns false as a timeout.
C7_OneLastUptimeCheck ==
    (op = "waitForReboot" /\ pc = "done" /\ args.phase = "final" /\ ~exited) =>
        /\ args.elapsed >= args.timeoutSec
        /\ Count(cmds, "ssh_uptime") = 1
        /\ cmds[Len(cmds)].tool = "ssh_uptime"
        /\ IF args.read >= 0 /\ args.read < MAX_FRESH_UPTIME
           THEN result = "true"
           ELSE result = "false" /\ "timeout" \in msgs

\* The deadline passed, the remote was never seen offline, and the last read
\* found a fresh uptime.
C7_Witness ==
    /\ op = "waitForReboot" /\ pc = "done" /\ args.phase = "final"
    /\ ~args.sawOffline /\ args.timeoutSec > 0
    /\ args.read = 5 /\ result = "true"

\* C8: verifyRemoteChecksum returns true only if the remote recomputed a
\* digest equal to the sidecar's; a mismatch, a missing artifact or sidecar
\* and an SSH failure return false, and every false is reported.
C8_ChecksumTrueOnlyOnMatch ==
    (op = "verifyRemoteChecksum" /\ pc = "done") =>
        /\ result \in {"true", "false"}
        /\ (result = "true") =>
              /\ args.connects
              /\ args.image \in Digests /\ args.sidecar \in Digests
              /\ args.image = args.sidecar
        /\ (result = "false") => "checksum_failed" \in msgs

\* A mismatch on an artifact whose name contains "OK" was reported.
C8_Witness ==
    /\ op = "verifyRemoteChecksum" /\ pc = "done"
    /\ args.connects /\ args.nameHasOK
    /\ args.image \in Digests /\ args.sidecar \in Digests
    /\ args.image # args.sidecar
    /\ result = "false" /\ "checksum_failed" \in msgs

\* C9: after confirmation remoteFlash issues ab-update <remoteImagePath>
\* exactly once and nothing else that writes a slot; the reboot is issued only
\* after ab-update exited 0; when ab-update fails the error is thrown again,
\* no reboot is issued and the update is not retried.
C9_UpdateOnceRebootOnlyAfterSuccess ==
    (op = "remoteFlash") =>
        /\ \A i \in 1..Len(cmds) :
              cmds[i].tool \in {"ssh_ab_update", "ssh_reboot"} \cup ReleaseTools
        /\ Count(cmds, "ssh_ab_update") <= 1
        /\ (pc \in {"rf_update", "rf_settle"} \/ (pc = "done" /\ ~args.dryRun)) =>
              /\ Count(cmds, "ssh_ab_update") = 1
              /\ cmds[1] = Cmd("ssh_ab_update", args.remoteImagePath)
        /\ (Count(cmds, "ssh_reboot") > 0) =>
              /\ Count(cmds, "ssh_reboot") = 1
              /\ args.closed /\ args.code = 0
              /\ \A i \in Positions(cmds, "ssh_ab_update"),
                    j \in Positions(cmds, "ssh_reboot") : i < j
        /\ (args.closed /\ args.code # 0) =>
              /\ pc = "done" /\ result = "throws"
              /\ Count(cmds, "ssh_reboot") = 0
        /\ (args.prompted /\ toLowerCase(trim(args.typed)) # Yolo) =>
              (cmds = <<>> /\ exited)

\* The operator confirmed, ab-update exited non-zero and the call threw.
C9_Witness ==
    /\ op = "remoteFlash" /\ pc = "done"
    /\ args.prompted /\ args.closed /\ args.code = 1
    /\ result = "throws" /\ "update_failed" \in msgs

\* C10: in the five scoped-mount operations (not a dry run) every attempted
\* mount is followed, before the operation returns or throws, by an attempted
\* unmount of the same mount point, and no unmount precedes the mount.
C10_MountMatchedByUnmount ==
    (op \in MountOps /\ pc = "done" /\ ~exited) =>
        /\ \A i \in Positions(cmds, "mount") :
              \E j \in Positions(cmds, "umount") :
                  j > i /\ cmds[j].arg = cmds[i].arg
        /\ \A j \in Positions(cmds, "umount") :
              \E i \in Positions(cmds, "mount") :
                  i < j /\ cmds[i].arg = cmds[j].arg

\* setHostname mounted the boot partition, the write that follows threw, the
\* unmount was attempted all the same and the error reached the caller.
C10_Witness ==
    /\ op = "setHostname" /\ pc = "done" /\ result = "throws"
    /\ Count(cmds, "mount") = 1 /\ Count(cmds, "tee") = 1
    /\ Count(cmds, "chmod") = 0
    /\ Count(cmds, "umount") = 1

\* A call of getPartitionDevice has returned or thrown (and no SIGINT handler
\* ran afterwards).
PathCall == op = "getPartitionDevice" /\ pc = "done" /\ ~exited

ValidDevice(v) == v.t = "string" /\ v.s # <<>>

\* The path the specification asks for: the name, a "p" exactly when the name
\* ends in a digit, then the index.
PathAsSpecified(path, name, n) ==
    LET sep == IF name[Len(name)] \in Digits THEN 1 ELSE 0
    IN  /\ Len(path) = Len(name) + sep + 1
        /\ SubSeq(path, 1, Len(name)) = name
        /\ sep = 1 => path[Len(name) + 1] = "p"
        /\ path[Len(path)] = DigitChar(n)

\* The derivation part of C11: valid inputs get the specified path and the
\* call runs no command.
PathDerived ==
    (PathCall /\ ValidDevice(args.device)
        /\ args.partitionNumber.t = "number" /\ args.partitionNumber.n \in 1..4) =>
            /\ result = "path"
            /\ PathAsSpecified(args.path, args.device.s, args.partitionNumber.n)
            /\ cmds = <<>>

\* C11 as stated: the path is derived as specified for indices 1..4, and the
\* call is rejected when the device is empty or not a string and when the
\* partition number is not a positive integer.
C11_PathDerivedAndInvalidRejected ==
    /\ PathDerived
    /\ (PathCall /\ ~ValidDevice(args.device)) => result = "throws"
    /\ (PathCall /\ ~(args.partitionNumber.t = "number"
                      /\ args.partitionNumber.n > 0)) => result = "throws"

\* C11 amended: the partition number is rejected when its conversion
\* Number(partitionNumber) is not a positive integer; a value that converts to
\* one (the string "4", true) is accepted and the path uses the converted
\* number.
C11_PathDerivedAndUnconvertibleRejected ==
    /\ PathDerived
    /\ (PathCall /\ ~ValidDevice(args.device)) => result = "throws"
    /\ (PathCall /\ ValidDevice(args.device)) =>
          LET part == Number(args.partitionNumber)
          IN  IF part.t = "number" /\ part.n > 0
              THEN /\ result = "path"
                   /\ part.n <= 9 =>
                        PathAsSpecified(args.path, args.device.s, part.n)
              ELSE result = "throws"

\* The string "4" was passed as partition number for a disk whose name ends
\* in a digit, and the path with the separator came back.
C11_Witness ==
    /\ PathCall /\ result = "path"
    /\ args.device = JsString(<<"b", "0">>)
    /\ args.partitionNumber = JsString(<<"4">>)
    /\ args.path = <<"b", "0", "p", "4">>

\* An operation has returned or thrown and no SIGINT handler ran afterwards.
Finished(name) == op = name /\ pc = "done" /\ ~exited

\* Every command of the given tools was given exactly the partition path the
\* specification derives for (args.device, n).
Addresses(tools, n) ==
    \A i \in 1..Len(cmds) :
        cmds[i].tool \in tools =>
            PathAsSpecified(IF cmds[i].tool = "mount" THEN cmds[i].dev
                            ELSE cmds[i].arg,
                            args.device, n)

\* C12: the data-partition check, backup, restore, grow and WiFi injection
\* address the path derived for index 4, the hostname write index 1 and the
\* SSH-key injection index 2, for disks of either naming convention, and
\* hasDataPartition is true exactly when that path is a block special file.
C12_OperationsAddressDerivedPartition ==
    /\ \A name \in {"backupDataPartition", "restoreDataPartition",
                    "injectWifiCredentials", "hasDataPartition",
                    "growDataPartition"} :
          Finished(name) =>
              Addresses({"mount", "test_b", "e2fsck_f_p", "resize2fs"}, 4)
    /\ Finished("setHostname") => Addresses({"mount"}, 1)
    /\ Finished("injectSSHKey") => Addresses({"mount"}, 2)
    /\ Finished("hasDataPartition") =>
          /\ Count(cmds, "test_b") = 1
          /\ result = "true" <=> args.node = "block"

\* The backup directory was removed again (rmdirSync(backupDir)).
BackupDiscarded ==
    \E i \in Positions(cmds, "fs_rmdir") : cmds[i].arg = BackupDir

\* The mount, the copy and the listing of the backup succeeded: nothing threw,
\* or the only throw was that of the rmdirSync that discards an empty backup.
Listed ==
    /\ ~args.preThrew
    /\ ~args.bodyThrew \/ Cmd("fs_rmdir", BackupDir) \in Range(cmds)

\* C13: a backup that copied nothing, or nothing but lost+found, returns null,
\* says that there is nothing to back up and removes the backup directory; a
\* backup with any other entry returns the backup path and keeps the
\* directory.
C13_LostFoundOnlyIsNothingToBackUp ==
    (Finished("backupDataPartition") /\ Listed) =>
        IF args.content \in {"nothing", "lost+found"}
        THEN /\ result = "null"
             /\ "nothing_to_backup" \in msgs
             /\ BackupDiscarded
        ELSE /\ result = "backupDir"
             /\ "backed_up" \in msgs
             /\ ~BackupDiscarded

\* Only lost+found was copied: null, and the backup directory removed.
C13_Witness ==
    /\ Finished("backupDataPartition")
    /\ args.content = "lost+found" /\ ~args.bodyThrew
    /\ result = "null" /\ BackupDiscarded

\* C14: backupDataPartition never throws to its caller; when creating the
\* temporary directories, the mount or the copy fails it returns null and the
\* backup directory is removed.
C14_BackupFailureNeverPropagates ==
    Finished("backupDataPartition") =>
        /\ result # "throws"
        /\ (args.preThrew \/ args.bodyThrew) =>
              result = "null" /\ BackupDiscarded

\* C15: when the mount or the copy of restoreDataPartition fails, a warning
\* and false are the result, the unmount is still attempted, and nothing is
\* removed or written: the only commands are the mkdtemp, the mount, the
\* rsync, the unmount and the rmdir of the mount point.
C15_RestoreFailureIsReportedOnly ==
    (Finished("restoreDataPartition") /\ args.bodyThrew) =>
        /\ result = "false"
        /\ "restore_failed" \in msgs
        /\ Count(cmds, "umount") = 1
        /\ cmds[Len(cmds)].tool \in {"umount", "fs_rmdir"}
        /\ \A i \in 1..Len(cmds) :
              /\ cmds[i].tool \in {"fs_mkdtemp", "mount", "rsync", "umount", "fs_rmdir"}
              /\ cmds[i].tool # "mount" => cmds[i].arg = <<"data-restore">>

\* The copy failed after a successful mount.
C15_Witness ==
    /\ Finished("restoreDataPartition") /\ args.bodyThrew
    /\ Count(cmds, "rsync") = 1 /\ Count(cmds, "umount") = 1
    /\ result = "false"

\* The entries of a tree besides lost+found, each with the owner the
\* filesystem records for it.
OwnedFiles(tree) ==
    {<<n, tree[n].owner>> : n \in DOMAIN tree \ {LostFound}}

\* C16: backing up a populated data partition and restoring the backup into
\* the empty partition of the new image gives the original files with their
\* original owners, lost+found aside.
C16_RoundTripKeepsFilesAndOwners ==
    (Finished("backupThenRestore") /\ result = "true") =>
        OwnedFiles(args.restored) = OwnedFiles(args.original)

\* Weaker: the names of the files survive the round trip.
C16_RoundTripKeepsFileNames ==
    (Finished("backupThenRestore") /\ result = "true") =>
        DOMAIN args.restored \ {LostFound} = DOMAIN args.original \ {LostFound}

\* The position in cmds of the only command of a tool, 0 when there is none.
At(tool) ==
    IF Positions(cmds, tool) = {} THEN 0
    ELSE CHOOSE i \in Positions(cmds, tool) : TRUE

\* C17: when growpart exits with status 1 (already at the target size),
\* growDataPartition says so, goes on to the filesystem check and the resize,
\* and returns normally when these succeed; growpart raises an error exactly
\* when its exit status is neither 0 nor 1.
C17_NoChangeIsSuccess ==
    (Finished("growDataPartition") /\ Count(cmds, "growpart") = 1) =>
        /\ args.growExit = 1 =>
              /\ "already_at_maximum_size" \in msgs
              /\ Count(cmds, "e2fsck_f_p") = 1
              /\ (args.fsckExit \in {0, 1, 2} /\ args.resizeOk = "yes") =>
                    /\ result = "undefined"
                    /\ Count(cmds, "resize2fs") = 1
        /\ args.growExit \in {0, 1} <=> Count(cmds, "e2fsck_f_p") = 1
        /\ args.growExit \notin {0, 1} =>
              /\ result = "throws"
              /\ cmds[Len(cmds)].tool = "growpart"

\* growpart exited 1, the check and the resize ran, the call returned.
C17_Witness ==
    /\ Finished("growDataPartition")
    /\ args.growExit = 1 /\ args.fsckExit = 0
    /\ Count(cmds, "resize2fs") = 1
    /\ result = "undefined"
    /\ "already_at_maximum_size" \in msgs

\* C18: in a growDataPartition that is not a dry run, the forced check
\* (e2fsck -f) of the data partition runs before any resize2fs; after check
\* results 0, 1 and 2 the resize runs, after any other result it never runs
\* and the call throws.
C18_ForcedCheckBeforeResize ==
    (Finished("growDataPartition") /\ ~args.dryRun) =>
        /\ Count(cmds, "resize2fs") <= 1
        /\ Count(cmds, "resize2fs") = 1 =>
              /\ Count(cmds, "e2fsck_f_p") = 1
              /\ At("e2fsck_f_p") < At("resize2fs")
              /\ cmds[At("e2fsck_f_p")].arg = cmds[At("resize2fs")].arg
              /\ args.fsckExit \in {0, 1, 2}
        /\ Count(cmds, "e2fsck_f_p") = 1 =>
              IF args.fsckExit \in {0, 1, 2}
              THEN Count(cmds, "resize2fs") = 1
              ELSE Count(cmds, "resize2fs") = 0 /\ result = "throws"
        /\ result = "undefined" => Count(cmds, "resize2fs") = 1

\* The check reported 2 (fixed, reboot recommended) and the resize ran.
C18_Witness ==
    /\ Finished("growDataPartition")
    /\ args.fsckExit = 2
    /\ Count(cmds, "resize2fs") = 1
    /\ result = "undefined"

\* C19: whenever prepareRootfs holds an attached loop device or the mounted
\* rootfs, the cleanup manager has it in its resources.
C19_HeldResourcesAreTracked ==
    (op = "prepareRootfs" /\ pc \in SyncPositions) =>
        /\ args.held # {} => resources.loop \in args.held
        /\ args.mounted => resources.mount = RootfsMount

\* A detach was attempted for every loop device prepareRootfs attached, and
\* an unmount after the mount it made.
TornDown ==
    /\ \A l \in args.attached :
          \E i \in Positions(cmds, "losetup_d") : cmds[i].arg = l
    /\ args.everMounted =>
          \E i \in Positions(cmds, "mount"), j \in Positions(cmds, "umount") :
              i < j /\ cmds[j].arg = cmds[i].arg

\* C20: when prepareRootfs returns or throws, every loop device it attached
\* has had a detach attempted and its mount an unmount, and an error that
\* reaches the caller is the error that made the function fail.
C20_TornDownAndOriginalErrorRaised ==
    Finished("prepareRootfs") =>
        /\ TornDown
        /\ result = "throws" => args.err = args.firstErr

\* The teardown half of C20 alone.
C20_TornDownOnEveryPath == Finished("prepareRootfs") => TornDown

\* C21: prepareRootfs never holds more than one loop device: the image's loop
\* device is detached before the loop device of the extracted rootfs is
\* attached.
C21_OneLoopDeviceAtATime ==
    op = "prepareRootfs" =>
        /\ Cardinality(args.held) <= 1
        /\ \A j \in Positions(cmds, "losetup_f") :
              \E i \in Positions(cmds, "losetup_d") :
                  i < j /\ cmds[i].arg = ImageLoop

\* The cleanup commands of prepareRootfs.
CleanupTools == {"umount", "losetup_d", "fs_unlink", "fs_rm"}

\* C22: a failing cleanup step is logged and never thrown.  When a step of
\* prepareRootfs other than a cleanup step failed, its error is the one that
\* reaches the caller; when the unmount of a partition operation fails, the
\* warning is logged and the outcome is that of the operation itself.
C22_CleanupErrorNeverMasksPrimary ==
    /\ (Finished("prepareRootfs") /\ result = "throws"
            /\ args.firstErr \notin CleanupTools) =>
          args.err = args.firstErr
    /\ \A name \in {"restoreDataPartition", "setHostname", "injectSSHKey",
                    "injectWifiCredentials"} :
          (Finished(name) /\ cmds # <<>> /\ cmds[Len(cmds)].tool = "umount") =>
              /\ "cleanup_warning" \in msgs
              /\ Count(cmds, "mount") = 1

\* C23: a flashImage that is not a dry run returns normally only after the
\* write subprocess closed with status 0 and the sync ran after it, with
\* bmaptool and with dd alike; no sync runs before the write.
C23_SyncAfterEveryWrite ==
    /\ (Finished("flashImage") /\ ~args.dryRun /\ result = "undefined") =>
          /\ args.code = 0
          /\ cmds[Len(cmds)].tool = "sync"
          /\ cmds[Len(cmds) - 1].tool = (IF args.useBmap THEN "bmaptool" ELSE "dd")
    /\ op = "flashImage" =>
          \A i \in Positions(cmds, "sync") :
              \E j \in 1..(i - 1) : cmds[j].tool \in WriteTools

\* bmaptool closed with status 0, the sync ran, the call returned.
C23_Witness ==
    /\ Finished("flashImage") /\ ~args.dryRun /\ args.useBmap
    /\ result = "undefined"
    /\ Tools(cmds) = <<"which_bmaptool", "umount_all", "bmaptool", "sync">>

\* The method a run uses: bmaptool when the tool is installed and the bmap
\* file is given and exists.
MethodAsSpecified ==
    LET tool == IF args.bmaptool /\ args.bmapFile THEN "bmaptool" ELSE "dd"
    IN  /\ (IF tool = "bmaptool" THEN "method_bmaptool" ELSE "method_dd") \in msgs
        /\ args.dryRun => args.plan = <<"umount_all", tool, "sync">>
        /\ (~args.dryRun /\ result = "undefined") =>
              SubSeq(Tools(cmds), 2, Len(cmds)) = <<"umount_all", tool, "sync">>

\* C24 as stated: a dry run executes no command at all, asks nothing, and
\* prints the method and the commands of the real run.
C24_DryRunExecutesNothing ==
    Finished("flashImage") =>
        /\ MethodAsSpecified
        /\ args.dryRun => cmds = <<>> /\ ~args.prompted

\* C24 amended: the only command a dry run executes is the probe
\* `which bmaptool` that decides the method; it asks nothing, and prints the
\* method and the commands of the real run.
C24_DryRunOnlyProbesForTool ==
    Finished("flashImage") =>
        /\ MethodAsSpecified
        /\ args.dryRun =>
              /\ Tools(cmds) = <<"which_bmaptool">>
              /\ ~args.prompted
              /\ result = "undefined"
        /\ (~args.dryRun /\ result = "undefined") =>
              SubSeq(Tools(cmds), 2, Len(cmds)) = Plan(args.useBmap)

\* A dry run with bmaptool installed and the bmap file present.
C24_Witness ==
    /\ Finished("flashImage") /\ args.dryRun /\ args.bmaptool /\ args.bmapFile
    /\ args.plan = <<"umount_all", "bmaptool", "sync">>
    /\ Tools(cmds) = <<"which_bmaptool">>

\* The device paths getBlockDevices returned.
Offered == {args.devices[i].device : i \in 1..Len(args.devices)}

\* A flash target as the specification describes it: a whole disk that is
\* neither a loop nor an NVMe device and is removable or on USB.
FlashTarget(dev) ==
    /\ dev.type = "disk"
    /\ \A prefix \in {<<"l", "o", "o", "p">>, <<"n", "v", "m", "e">>} :
          \E i \in 1..4 : i > Len(dev.name) \/ dev.name[i] # prefix[i]
    /\ dev.rm \in {"true", "'1'"} \/ dev.tran = "usb"

\* C25: getBlockDevices returns exactly the listed flash targets, never a
\* loop device, an NVMe device or an entry that is not a disk, and returns the
\* empty list, without throwing, when the listing fails.
C25_OnlyRemovableWholeDisks ==
    Finished("getBlockDevices") =>
        /\ result = "list"
        /\ IF args.lsblkOk
           THEN Offered = {<<"/dev/">> \o d.name :
                              d \in {e \in Range(args.listing) : FlashTarget(e)}}
           ELSE args.devices = <<>>
        /\ \A i \in 1..Len(args.devices) :
              \E d \in Range(args.listing) :
                  /\ args.devices[i].device = <<"/dev/">> \o d.name
                  /\ FlashTarget(d)

\* An NVMe disk on USB was listed: it is not returned.
C25_Witness ==
    /\ Finished("getBlockDevices") /\ args.lsblkOk
    /\ Len(args.listing) = 1
    /\ args.listing[1].name = <<"n", "v", "m", "e", "0">>
    /\ args.listing[1].type = "disk" /\ args.listing[1].tran = "usb"
    /\ args.devices = <<>>

\* What C26 asks of findLatestImage when the candidates are the given names:
\* the earliest priority name among them, else a newest one, and none exactly
\* when the directory is absent or there is no candidate.
PicksFrom(candidates) ==
    LET named == {i \in 1..Len(args.preferredNames) :
                      args.preferredNames[i] \in candidates}
    IN  /\ result = "null" <=> (~args.exists \/ candidates = {})
        /\ result = "found" =>
              /\ args.found \in candidates
              /\ IF named # {}
                 THEN \E i \in named :
                        /\ args.found = args.preferredNames[i]
                        /\ \A j \in named : i <= j
                 ELSE \A n \in candidates :
                        args.dir[n].mtime <= args.dir[args.found].mtime

C27_SymlinkNeverReturned ==
    (Finished("findLatestImage") /\ result = "found") =>
        args.dir[args.found].kind # "symlink"

\* A call of the named Guard function returns in this step.
Call(name) == pc = "idle" /\ pc' = "done" /\ op' = name

\* The tools of the release steps owed to the tracked resources, in order.
Owed ==
    (IF resources.mount # null THEN <<[tool |-> "umount", arg |-> resources.mount]>> ELSE <<>>)
    \o (IF resources.loop # null THEN <<[tool |-> "losetup_d", arg |-> resources.loop]>> ELSE <<>>)
    \o (IF resources.tempdir # null THEN <<[tool |-> "rm_rf", arg |-> resources.tempdir]>> ELSE <<>>)

\* C28: cleanup executes nothing in a critical section; outside one it
\* attempts the unmount of the tracked mount, the detach of the tracked loop
\* device and the removal of the tracked temp directory, every one of them
\* whether or not a step failed, and returns normally without exiting.
C28_CleanupAttemptsEveryRelease ==
    [][Call("cleanup") =>
          /\ result' = "undefined"
          /\ ~exited'
          /\ IF inCriticalSection
             THEN cmds' = <<>>
             ELSE [i \in 1..Len(cmds') |->
                      [tool |-> cmds'[i].tool, arg |-> cmds'[i].arg]] = Owed]_vars

\* All three kinds were tracked and the removal of the temp directory failed.
C28_Witness ==
    /\ op = "cleanup" /\ pc = "done" /\ ~exited
    /\ "cleanup_error" \in msgs
    /\ Len(cmds) = 3
    /\ result = "undefined"

\* C29: registering a resource of a kind that already holds a value is
\* rejected and leaves the tracked value in place.
C29_SecondRegistrationRejected ==
    [][(/\ Call("trackResource")
        /\ args'.type \in ResourceTypes
        /\ resources[args'.type] # null)
          => (result' = "throws" /\ resources' = resources)]_vars

\* C30: waitForReboot returns true only for an uptime read in [0, 60).
C30_TrueOnlyBelowSixtySeconds ==
    (Finished("waitForReboot") /\ result = "true") =>
        (args.read >= 0 /\ args.read < 60)

\* C31: waitForReboot terminates whatever the remote does: a call that is
\* waiting between polls eventually returns a boolean (or the process has
\* exited on an interrupt).
\* Polls start only before the deadline and are a poll delay apart, and at
\* most one uptime check is made once the deadline has passed.
C31_WaitForRebootTerminates ==
    /\ [](op = "waitForReboot" =>
            /\ Count(cmds, "ssh_echo") * PollDelay < args.timeoutSec + PollDelay
            /\ args.phase = "final" => Count(cmds, "ssh_uptime") = 1)
    /\ (op = "waitForReboot" /\ pc = "wfr_sleep") ~>
          (exited \/ (/\ op = "waitForReboot" /\ pc = "done"
                      /\ result \in {"true", "false"}))

\* The remote flapped until the deadline and the call returned after its one
\* last uptime check.
C31_Witness ==
    /\ Finished("waitForReboot") /\ args.phase = "final"
    /\ args.sawOffline /\ args.online
    /\ Count(cmds, "ssh_echo") >= 2
    /\ result \in {"true", "false"}

\* C33: waitForReboot returns true only if the remote rebooted during the
\* call.
C33_TrueOnlyAfterReboot ==
    (Finished("waitForReboot") /\ result = "true") => args.rebooted

\* C34: the immediate false after an offline-then-online transition is given
\* only on a valid uptime at or above the threshold.
C34_NoVerdictWithoutUptime ==
    (Finished("waitForReboot") /\ result = "false" /\ args.phase = "loop") =>
        args.read >= MAX_FRESH_UPTIME

\* C32: the critical-section flag starts cleared; enterCriticalSection sets it
\* and exitCriticalSection clears it, however often either was called before;
\* isInCriticalSection reports it; no other step changes it.
C32_FlagIsTwoStateMachine ==
    /\ ~inCriticalSection
    /\ [][/\ Call("enterCriticalSection") => inCriticalSection'
          /\ Call("exitCriticalSection") => ~inCriticalSection'
          /\ Call("isInCriticalSection") =>
                result' = (IF inCriticalSection THEN "true" ELSE "false")
          /\ ~(Call("enterCriticalSection") \/ Call("exitCriticalSection")) =>
                inCriticalSection' = inCriticalSection]_vars

\* The section was entered while it was already entered, and it still is.
C32_Witness ==
    /\ op = "enterCriticalSection" /\ pc = "done" /\ ~exited
    /\ args.was
    /\ inCriticalSection

\* C37: at most one interrupt handler of the manager is registered with the
\* process, and one is registered exactly when the manager holds it; an
\* install over an installed handler throws and registers nothing, an
\* uninstall leaves none.
C37_AtMostOneHandlerRegistered ==
    /\ [](listeners <= 1 /\ (sigintHandler <=> listeners = 1))
    /\ [][/\ (Call("installSignalHandlers") /\ sigintHandler) =>
                (result' = "throws" /\ listeners' = listeners)
          /\ Call("uninstallSignalHandlers") =>
                (result' = "undefined" /\ listeners' = 0)]_vars

\* A second install was refused while the first handler stays registered.
C37_Witness ==
    /\ op = "installSignalHandlers" /\ pc = "done" /\ result = "throws"
    /\ listeners = 1 /\ sigintHandler

\* C36: only trackResource and untrackResource change the tracked resource
\* slots; cleanup and the interrupt handler leave them as they were.
C36_OnlyRegistrationChangesSlots ==
    [][~(Call("trackResource") \/ Call("untrackResource")) =>
          resources' = resources]_vars

\* cleanup released a mount, a loop device and a temp directory without a
\* failure, and all three are still tracked.
C36_Witness ==
    /\ op = "cleanup" /\ pc = "done" /\ ~exited
    /\ msgs = {}
    /\ Len(cmds) = 3
    /\ \A type \in ResourceTypes : resources[type] # null

\* C35: a flashImage that started the write always settles: the process never
\* ends with the write still awaited unless an interrupt was cleaned up, and
\* the call returns normally only for exit status 0.
C35_WriteAlwaysSettles ==
    /\ (op = "flashImage" /\ pc = "flash_write" /\ exited) => handled = "cleaned"
    /\ (Finished("flashImage") /\ ~args.dryRun /\ result = "undefined") =>
          args.code = 0

\* C38: the error cleanup of prepareRootfs touches only what the invocation
\* created: it does not delete a work directory the caller supplied and does
\* not detach loop devices it did not attach.
C38_ErrorCleanupTouchesOnlyOwn ==
    (Finished("prepareRootfs") /\ result = "throws") =>
        /\ args.workingDirectory =>
              \A i \in 1..Len(cmds) : cmds[i] # Cmd("fs_rm", WorkDir)
        /\ \A i \in 1..Len(cmds) : cmds[i].tool # "losetup_D"

\* C39: once injectWifiCredentials has staged the connection file (the copy
\* into the data partition was attempted), the staged file has been removed
\* when the function returns or throws.
C39_StagedFileRemoved ==
    (Finished("injectWifiCredentials") /\ Count(cmds, "cp") > 0) =>
        \E i \in 1..Len(cmds) : cmds[i] = Cmd("fs_rm", <<"nm-conn">>)

\* C40: a transferImage that is not a dry run returns normally only if the
\* artifact and then the sidecar were written on the remote.
C40_ReturnsOnlyWithSidecar ==
    (Finished("transferImage") /\ ~args.dryRun /\ result = "paths") =>
        (args.artifact /\ args.sidecar)

====
